---- MODULE Spec2Model ----
(***************************************************************************)
(* Model of the ecc library: the public Scalar and Element wrappers and    *)
(* the ristretto255, edwards25519 and secp256k1 scalar backends.           *)
(*                                                                         *)
(* A scalar value is its canonical 32-byte little-endian magnitude, a      *)
(* sequence of bytes (index 1 is the least significant byte).  The         *)
(* arithmetic of the backend libraries (gtank/ristretto255,                *)
(* filippo.io/edwards25519, bytemare/secp256k1) is arithmetic modulo the   *)
(* group order, computed here on byte sequences.                           *)
(***************************************************************************)
EXTENDS Integers, Sequences, FiniteSets, TLC

\* ------------------------------------------------------------------------
\* Bounds of the model
\* ------------------------------------------------------------------------

\* number of completed calls in one behaviour
MaxOps == 2

\* number of completed calls of Pow in one behaviour of Pow
MaxPowCalls == 1

\* ------------------------------------------------------------------------
\* Constants of the program
\* ------------------------------------------------------------------------

canonicalEncodingLength == 32

inputLength == 64

Groups == {"ristretto255", "edwards25519", "secp256k1"}

\* the backends whose scalar code works on little-endian encodings
LittleEndianGroups == {"ristretto255", "edwards25519"}

orderBytes ==
  <<237, 211, 245, 92, 26, 99, 18, 88, 214, 156, 247, 162, 222, 249, 222, 20,
    0, 0, 0, 0, 0, 0, 0, 0, 0, 0, 0, 0, 0, 0, 0, 16>>

\* order - 2 in place of order - 1
scMinusOneOffByOne ==
  <<235, 211, 245, 92, 26, 99, 18, 88, 214, 156, 247, 162, 222, 249, 222, 20,
    0, 0, 0, 0, 0, 0, 0, 0, 0, 0, 0, 0, 0, 0, 0, 16>>

scMinusOne ==
  <<236, 211, 245, 92, 26, 99, 18, 88, 214, 156, 247, 162, 222, 249, 222, 20,
    0, 0, 0, 0, 0, 0, 0, 0, 0, 0, 0, 0, 0, 0, 0, 16>>

\* order of secp256k1, little-endian
secpOrder ==
  <<65, 65, 54, 208, 140, 94, 210, 191, 59, 160, 72, 175, 230, 220, 174, 186,
    254, 255, 255, 255, 255, 255, 255, 255, 255, 255, 255, 255, 255, 255, 255, 255>>

\* the prime 2^255 - 19 of the field of the curve of edwards25519 and ristretto255
fieldPrime ==
  <<237, 255, 255, 255, 255, 255, 255, 255, 255, 255, 255, 255, 255, 255, 255, 255,
    255, 255, 255, 255, 255, 255, 255, 255, 255, 255, 255, 255, 255, 255, 255, 127>>

\* the modulus of the arithmetic of g: the order of the group g, or the prime
\* of the field
Order(g) ==
  IF g = "secp256k1" THEN secpOrder ELSE IF g = "field" THEN fieldPrime ELSE orderBytes

\* ------------------------------------------------------------------------
\* Byte-sequence arithmetic (what the backend libraries compute)
\* ------------------------------------------------------------------------

\* the only element of a singleton set: binds a computed value before use
Pick(S) == CHOOSE e \in S : TRUE

Pad(v, n) == SubSeq([i \in 1..n |-> IF i <= Len(v) THEN v[i] ELSE 0], 1, n)

Reverse(v) == SubSeq([i \in 1..Len(v) |-> v[Len(v) + 1 - i]], 1, Len(v))

\* one step of carry propagation: c = <<digits so far, carry>>, t the next digit
CarryStep(c, t) ==
  LET d == (t + c[2]) % 256
  IN <<Append(c[1], d), (t + c[2] - d) \div 256>>

\* carry propagation over the digits lo..hi of v
RECURSIVE CarryRun(_, _, _, _)
CarryRun(v, c, lo, hi) ==
  IF lo = hi THEN CarryStep(c, v[lo])
  ELSE Pick({CarryRun(v, h, (lo + hi) \div 2 + 1, hi) : h \in {CarryRun(v, c, lo, (lo + hi) \div 2)}})

\* the n bytes of the little-endian number whose (unnormalised) digits are v[1..n]
Normalise(v, n) == Pick({CarryRun(w, <<<<>>, 0>>, 1, n)[1] : w \in {SubSeq(v, 1, n)}})

\* a >= b as little-endian numbers, comparing from byte i downwards
RECURSIVE GeqFrom(_, _, _)
GeqFrom(a, b, i) ==
  IF i = 0 THEN TRUE
  ELSE IF a[i] # (IF i <= Len(b) THEN b[i] ELSE 0)
       THEN a[i] > (IF i <= Len(b) THEN b[i] ELSE 0)
       ELSE GeqFrom(a, b, i - 1)

\* subtract m from r while r >= m
RECURSIVE Correct(_, _)
Correct(r, m) ==
  IF GeqFrom(r, m, Len(r))
  THEN Pick({Correct(d, m) :
               d \in {Normalise([i \in 1..Len(r) |-> r[i] - (IF i <= Len(m) THEN m[i] ELSE 0)], Len(r))}})
  ELSE r

\* v mod m for v of Len(m) + 2 bytes
ReduceSmall(v, m) ==
  LET n == Len(m)
      q == ((v[n + 2] * 65536 + v[n + 1] * 256 + v[n]) * 256) \div (m[n] * 256 + m[n - 1] + 1)
  IN Pick({SubSeq(Correct(r, m), 1, n) :
             r \in {Normalise([i \in 1..(n + 2) |-> v[i] - q * (IF i <= n THEN m[i] ELSE 0)], n + 2)}})

\* the table R with R[k] = 256^(n + k - 1) mod m, for k = 1 .. n + 2
RECURSIVE FoldTableFrom(_, _, _)
FoldTableFrom(m, prev, cnt) ==
  IF cnt = 0 THEN <<>>
  ELSE Pick({<<nxt>> \o FoldTableFrom(m, nxt, cnt - 1) :
               nxt \in {ReduceSmall(<<0>> \o prev \o <<0>>, m)}})

FoldTable(m) ==
  LET n == Len(m)
  IN Pick({<<first>> \o FoldTableFrom(m, first, n + 1) :
             first \in {ReduceSmall([i \in 1..(n + 2) |-> IF i = n + 1 THEN 1 ELSE 0], m)}})

foldL == FoldTable(orderBytes)

foldSecp == FoldTable(secpOrder)

foldP == FoldTable(fieldPrime)

Fold(g) == IF g = "secp256k1" THEN foldSecp ELSE IF g = "field" THEN foldP ELSE foldL

\* fold byte n + k of v into the low n digits acc
FoldStep(v, R, n, acc, k) ==
  IF v[n + k] = 0 THEN acc
  ELSE SubSeq([i \in 1..n |-> acc[i] + v[n + k] * R[k][i]], 1, n)

RECURSIVE FoldRun(_, _, _, _, _, _)
FoldRun(v, R, n, acc, lo, hi) ==
  IF lo = hi THEN FoldStep(v, R, n, acc, lo)
  ELSE Pick({FoldRun(v, R, n, h, (lo + hi) \div 2 + 1, hi) :
               h \in {FoldRun(v, R, n, acc, lo, (lo + hi) \div 2)}})

\* v mod m for v of at most 2 * Len(m) bytes
Reduce(v, m, R) ==
  LET n == Len(m)
  IN Pick({Pick({ReduceSmall(f2, m) :
                   f2 \in {Normalise(FoldRun(f1, R, n, SubSeq(f1, 1, n), 1, 3) \o <<0, 0>>, n + 2)}}) :
             f1 \in {Normalise(FoldRun(v, R, n, SubSeq(v, 1, n), 1, Len(v) - n) \o <<0, 0, 0>>, n + 3)}})

\* add a * b[j] * 256^(j-1) to the digits acc
ProdStep(a, b, acc, j) ==
  IF b[j] = 0 THEN acc
  ELSE SubSeq([k \in 1..(2 * Len(a)) |->
                 acc[k] + (IF k >= j /\ k - j + 1 <= Len(a) THEN a[k - j + 1] * b[j] ELSE 0)],
              1, 2 * Len(a))

RECURSIVE ProdRun(_, _, _, _, _)
ProdRun(a, b, acc, lo, hi) ==
  IF lo = hi THEN ProdStep(a, b, acc, lo)
  ELSE Pick({ProdRun(a, b, h, (lo + hi) \div 2 + 1, hi) :
               h \in {ProdRun(a, b, acc, lo, (lo + hi) \div 2)}})

\* a * b mod the order of group g
MulMod(a, b, g) ==
  LET n == canonicalEncodingLength
  IN Pick({Pick({Reduce(p, Order(g), Fold(g)) :
                   p \in {Normalise(ProdRun(x, y, [k \in 1..(2 * n) |-> 0], 1, n), 2 * n)}}) :
             x \in {a}, y \in {b}})

\* a + b mod the order of group g
AddMod(a, b, g) ==
  LET n == canonicalEncodingLength
  IN Pick({Pick({SubSeq(Correct(r, Order(g)), 1, n) :
                   r \in {Normalise([i \in 1..(n + 1) |-> IF i <= n THEN x[i] + y[i] ELSE 0], n + 1)}}) :
             x \in {a}, y \in {b}})

\* a - b mod the order of group g
SubMod(a, b, g) ==
  LET n == canonicalEncodingLength
  IN Pick({Pick({SubSeq(Correct(r, Order(g)), 1, n) :
                   r \in {Normalise([i \in 1..(n + 1) |-> IF i <= n THEN x[i] + Order(g)[i] - y[i] ELSE 0], n + 1)}}) :
             x \in {a}, y \in {b}})

\* a <= b as unsigned integers
Leq(a, b) == GeqFrom(b, a, Len(b))

\* bit k (0 = least significant) of the byte b
Bit(b, k) == (b \div (2 ^ k)) % 2

\* one step of right-to-left binary exponentiation: st = <<result, power of the base>>
ExpStep(st, e, g, k) ==
  <<IF Bit(e[(k \div 8) + 1], k % 8) = 1 THEN MulMod(st[1], st[2], g) ELSE st[1],
    MulMod(st[2], st[2], g)>>

RECURSIVE ExpRun(_, _, _, _, _)
ExpRun(st, e, g, lo, hi) ==
  IF lo = hi THEN ExpStep(st, e, g, lo)
  ELSE Pick({ExpRun(h, e, g, (lo + hi) \div 2 + 1, hi) :
               h \in {ExpRun(st, e, g, lo, (lo + hi) \div 2)}})

\* index of the highest set bit of e, for e # 0
TopBit(e) ==
  LET top == CHOOSE i \in 1..Len(e) : e[i] # 0 /\ \A k \in (i + 1)..Len(e) : e[k] = 0
  IN 8 * (top - 1) + (CHOOSE k \in 0..7 : e[top] \div (2 ^ k) = 1)

\* b^e mod the order of group g (0^0 = 1)
ModExp(b, e, g) ==
  IF e = Pad(<<>>, Len(e)) THEN Pad(<<1>>, Len(b))
  ELSE Pick({ExpRun(<<Pad(<<1>>, Len(x)), x>>, y, g, 0, TopBit(y))[1] :
               x \in {b}, y \in {e}})

\* ------------------------------------------------------------------------
\* Faults, errors and call outcomes
\* ------------------------------------------------------------------------

ErrCastScalar == "ErrCastScalar"

ErrParamNilPoint == "ErrParamNilPoint"

ErrCastElement == "ErrCastElement"

ErrParamNilScalar == "ErrParamNilScalar"

ErrParamScalarLength == "invalid scalar length"

ErrParamScalarInvalidEncoding == "invalid scalar encoding"

\* the error of the ristretto255 and edwards25519 libraries for an encoding
\* that is not below the order
ErrLibraryNotCanonical == "invalid scalar encoding"

\* the errors of the secp256k1 library
ErrLibraryScalarLength == "invalid scalar length"

ErrLibraryScalarTooBig == "scalar too big"

\* what the secp256k1 library may return for the empty input, which the source
\* of this repository does not decide: its error for a nil or empty scalar, or
\* its error for a wrong length
ErrLibraryNilScalar == "nil or empty scalar"

secpEmptyErrors == {ErrLibraryNilScalar, ErrLibraryScalarLength}

\* the errors of encoding/hex
ErrLength == "encoding/hex: odd length hex string"

\* the characters of the codes 32 to 126; the grave accent, code 96, is cut
\* from a string in which an apostrophe follows it, the one way to write it
Printable ==
  <<" ", "!", "\"", "#", "$", "%", "&", "'", "(", ")", "*", "+", ",", "-", ".", "/", "0", "1",
    "2", "3", "4", "5", "6", "7", "8", "9", ":", ";", "<", "=", ">", "?", "@", "A", "B", "C",
    "D", "E", "F", "G", "H", "I", "J", "K", "L", "M", "N", "O", "P", "Q", "R", "S", "T", "U",
    "V", "W", "X", "Y", "Z", "[", "\\", "]", "^", "_", SubSeq("`'", 1, 1),
    "a", "b", "c", "d", "e", "f", "g", "h", "i", "j", "k", "l", "m", "n", "o", "p", "q", "r",
    "s", "t", "u", "v", "w", "x", "y", "z", "{", "|", "}", "~">>

\* the printable characters of Latin-1, codes 161 to 255; code 173, the soft
\* hyphen, is not printable
PrintableLatin1 ==
  <<"¡", "¢", "£", "¤", "¥", "¦", "§", "¨", "©", "ª", "«", "¬", "", "®", "¯", "°", "±", "²", "³",
    "´", "µ", "¶", "·", "¸", "¹", "º", "»", "¼", "½", "¾", "¿", "À", "Á", "Â", "Ã", "Ä", "Å",
    "Æ", "Ç", "È", "É", "Ê", "Ë", "Ì", "Í", "Î", "Ï", "Ð", "Ñ", "Ò", "Ó", "Ô", "Õ", "Ö", "×",
    "Ø", "Ù", "Ú", "Û", "Ü", "Ý", "Þ", "ß", "à", "á", "â", "ã", "ä", "å", "æ", "ç", "è", "é",
    "ê", "ë", "ì", "í", "î", "ï", "ð", "ñ", "ò", "ó", "ô", "õ", "ö", "÷", "ø", "ù", "ú", "û",
    "ü", "ý", "þ", "ÿ">>

UpperHex == <<"0", "1", "2", "3", "4", "5", "6", "7", "8", "9", "A", "B", "C", "D", "E", "F">>

\* unicode.IsPrint of the code point of a byte
IsPrint(b) == (32 <= b /\ b <= 126) \/ (161 <= b /\ b <= 255 /\ b # 173)

\* InvalidByteError(b).Error(): the byte as a code point under the verb %#U,
\* which gives the quoted character too when the code point is printable
InvalidByteError(b) ==
  "encoding/hex: invalid byte: U+00" \o UpperHex[(b \div 16) + 1] \o UpperHex[(b % 16) + 1]
    \o (IF IsPrint(b)
        THEN " '" \o (IF b <= 126 THEN Printable[b - 31] ELSE PrintableLatin1[b - 160]) \o "'"
        ELSE "")

UnexpectedDecoding == "unexpected decoding of uint64 scalar"

ErrUInt64TooBig == "scalar is too big to be uint64"

NoFault == "none"

NoError == "nil"

\* the absent operand
Nil == [grp |-> "nil", val |-> <<>>]

\* outcome of a call on a scalar: the receiver's value when the call ends, what
\* the call returns, and the fault (panic) that ended it, if any
Returns(v) ==
  [val |-> v, self |-> TRUE, bool |-> "none", u64 |-> <<>>, err |-> NoError, fault |-> NoFault]

ReturnsBool(v, b) ==
  [val |-> v, self |-> FALSE, bool |-> IF b THEN "true" ELSE "false", u64 |-> <<>>,
   err |-> NoError, fault |-> NoFault]

ReturnsUInt64(v, u, e) ==
  [val |-> v, self |-> FALSE, bool |-> "none", u64 |-> u, err |-> e, fault |-> NoFault]

ReturnsError(v, e) ==
  [val |-> v, self |-> FALSE, bool |-> "none", u64 |-> <<>>, err |-> e, fault |-> NoFault]

\* fmt.Errorf(prefix + "%w", e) for an error e, nil for no error: wrap holds
\* the prefixes put before the text of the error, the outermost first
Wrapped(r, prefix) ==
  [val |-> r.val, self |-> r.self, bool |-> r.bool, u64 |-> r.u64, err |-> r.err, fault |-> r.fault,
   wrap |-> IF r.err = NoError THEN <<>> ELSE <<prefix>>]

\* a call that returns bytes
ReturnsBytes(v, b) ==
  [val |-> v, self |-> FALSE, bool |-> "none", u64 |-> <<>>, err |-> NoError, fault |-> NoFault,
   bytes |-> b]

Panics(v, f) ==
  [val |-> v, self |-> FALSE, bool |-> "none", u64 |-> <<>>, err |-> NoError, fault |-> f]

scZero == Pad(<<>>, canonicalEncodingLength)

scOne == Pad(<<1>>, canonicalEncodingLength)

\* ------------------------------------------------------------------------
\* encoding/hex and strings: a string is the sequence of its bytes
\* ------------------------------------------------------------------------

\* the hexadecimal digit of n, in lower case
hextable(n) == IF n < 10 THEN 48 + n ELSE 87 + n

\* hex.EncodeToString
EncodeToString(src) ==
  SubSeq([i \in 1..(2 * Len(src)) |->
            hextable(IF i % 2 = 1 THEN src[(i + 1) \div 2] \div 16 ELSE src[i \div 2] % 16)],
         1, 2 * Len(src))

\* reverseHexTable: the value of the digit c, 255 for a byte that is no digit
fromHexChar(c) ==
  IF 48 <= c /\ c <= 57 THEN c - 48
  ELSE IF 97 <= c /\ c <= 102 THEN c - 87
  ELSE IF 65 <= c /\ c <= 70 THEN c - 55
  ELSE 255

\* hex.DecodeString: the bytes of the pairs of digits before the first byte
\* that is no digit; the error names that byte, or the odd length when every
\* byte is a digit
DecodeString(h) ==
  LET bad == {i \in 1..Len(h) : fromHexChar(h[i]) > 15}
      n == IF bad = {} THEN Len(h) \div 2
           ELSE ((CHOOSE i \in bad : \A k \in bad : i <= k) - 1) \div 2
  IN [err |-> IF bad # {} THEN InvalidByteError(h[CHOOSE i \in bad : \A k \in bad : i <= k]) ELSE IF Len(h) % 2 = 1 THEN ErrLength ELSE NoError,
      bytes |-> SubSeq([i \in 1..n |-> 16 * fromHexChar(h[2 * i - 1]) + fromHexChar(h[2 * i])], 1, n)]

\* strings.ReplaceAll(s, c, "") for the single byte c
ReplaceAll(s, c) == SelectSeq(s, LAMBDA x : x # c)

\* the byte of the double quote
Quote == 34

\* fmt.Sprintf("%q", s) for a string s of hexadecimal digits
Quoted(s) == <<Quote>> \o s \o <<Quote>>

\* ------------------------------------------------------------------------
\* ristretto255 and edwards25519 scalar backends (the two share this code)
\* ------------------------------------------------------------------------

\* the type assertion scalar.(*Scalar) succeeds
assert(s, scalar) == scalar.grp = s.grp

IsZero(s) == s.val = scZero

Zero(s) == Returns(scZero)

One(s) == Returns(scOne)

\* decodeScalar that takes every input of at least canonicalEncodingLength bytes
decodeScalarLengthAtMost(s, in) ==
  IF Len(in) = 0 THEN ReturnsError(s.val, ErrParamNilScalar)
  ELSE IF Len(in) < canonicalEncodingLength THEN ReturnsError(s.val, ErrParamScalarLength)
  ELSE IF GeqFrom(in, Order(s.grp), Len(in)) THEN ReturnsError(s.val, ErrLibraryNotCanonical)
  ELSE ReturnsError(in, NoError)

\* decodeScalar that takes the encoding of the order itself
decodeScalarAcceptsOrder(s, in) ==
  IF Len(in) = 0 THEN ReturnsError(s.val, ErrParamNilScalar)
  ELSE IF Len(in) # canonicalEncodingLength THEN ReturnsError(s.val, ErrParamScalarLength)
  ELSE IF in # Order(s.grp) /\ GeqFrom(in, Order(s.grp), Len(in))
  THEN ReturnsError(s.val, ErrLibraryNotCanonical)
  ELSE ReturnsError(in, NoError)

decodeScalar(s, in) ==
  IF Len(in) = 0 THEN ReturnsError(s.val, ErrParamNilScalar)
  ELSE IF Len(in) # canonicalEncodingLength THEN ReturnsError(s.val, ErrParamScalarLength)
  ELSE IF GeqFrom(in, Order(s.grp), Len(in)) THEN ReturnsError(s.val, ErrLibraryNotCanonical)
  ELSE ReturnsError(in, NoError)

MinusOne(s) == Returns(decodeScalar(s, scMinusOne).val)

Add(s, scalar) ==
  IF scalar = Nil THEN Returns(s.val)
  ELSE IF ~assert(s, scalar) THEN Panics(s.val, ErrCastScalar)
  ELSE Returns(AddMod(s.val, scalar.val, s.grp))

Subtract(s, scalar) ==
  IF scalar = Nil THEN Returns(s.val)
  ELSE IF ~assert(s, scalar) THEN Panics(s.val, ErrCastScalar)
  ELSE Returns(SubMod(s.val, scalar.val, s.grp))

\* Multiply that sets the receiver to zero before it looks at the operand's group
MultiplyZeroesFirst(s, scalar) ==
  IF scalar = Nil THEN Zero(s)
  ELSE IF ~assert(s, scalar) THEN Panics(scZero, ErrCastScalar)
  ELSE Returns(MulMod(s.val, scalar.val, s.grp))

Multiply(s, scalar) ==
  IF scalar = Nil THEN Zero(s)
  ELSE IF ~assert(s, scalar) THEN Panics(s.val, ErrCastScalar)
  ELSE Returns(MulMod(s.val, scalar.val, s.grp))

Equal(s, scalar) ==
  IF scalar = Nil THEN ReturnsBool(s.val, FALSE)
  ELSE IF ~assert(s, scalar) THEN Panics(s.val, ErrCastScalar)
  ELSE ReturnsBool(s.val, s.val = scalar.val)

\* res after the loop: some byte of ienc is greater than the same byte of jenc
SomeByteGreater(ienc, jenc) == \E i \in 1..Len(ienc) : ienc[i] > jenc[i]

LessOrEqual(s, scalar) ==
  IF ~assert(s, scalar) THEN Panics(s.val, ErrCastScalar)
  ELSE IF Len(s.val) # Len(scalar.val) THEN Panics(s.val, ErrParamScalarLength)
  ELSE ReturnsBool(s.val, ~SomeByteGreater(s.val, scalar.val))

Set(s, scalar) ==
  IF scalar = Nil THEN Zero(s)
  ELSE IF ~assert(s, scalar) THEN Panics(s.val, ErrCastScalar)
  ELSE Returns(scalar.val)

UInt64(s) ==
  IF \E i \in 9..canonicalEncodingLength : s.val[i] # 0
  THEN ReturnsUInt64(s.val, Pad(<<>>, 8), ErrUInt64TooBig)
  ELSE ReturnsUInt64(s.val, SubSeq(s.val, 1, 8), NoError)

\* SetUInt64 writing the uint64 most significant byte first
SetUInt64BigEndian(s, i) ==
  LET r == decodeScalar(s, Pad(Reverse(i), canonicalEncodingLength))
  IN IF r.err # NoError THEN Panics(s.val, UnexpectedDecoding) ELSE Returns(r.val)

\* binary.LittleEndian.PutUint64 into canonicalEncodingLength zero bytes, then
\* decodeScalar; i is the 8 bytes of the uint64, least significant first
SetUInt64(s, i) ==
  LET r == decodeScalar(s, Pad(i, canonicalEncodingLength))
  IN IF r.err # NoError THEN Panics(s.val, UnexpectedDecoding) ELSE Returns(r.val)

\* the backend object Copy allocates: the zero scalar plus s
Copy(s) == [grp |-> s.grp, val |-> AddMod(scZero, s.val, s.grp)]

\* the canonical little-endian encoding the library gives
Encode(s) == SubSeq(s.val, 1, canonicalEncodingLength)

Decode(s, in) == decodeScalar(s, in)

Hex(s) == EncodeToString(Encode(s))

DecodeHex(s, h) ==
  LET b == DecodeString(h)
  IN IF b.err # NoError THEN ReturnsError(s.val, b.err) ELSE Decode(s, b.bytes)

\* index (from 0) of the highest set bit of the byte, 0 for the zero byte
getMSBit(in) == IF in = 0 THEN 0 ELSE CHOOSE i \in 0..7 : Bit(in, i) = 1 /\ \A k \in (i + 1)..7 : Bit(in, k) = 0

\* index (from 0) of the last non-zero byte, 0 if there is none
getMSByte(in) ==
  IF \A i \in 1..Len(in) : in[i] = 0 THEN 0
  ELSE (CHOOSE i \in 1..Len(in) : in[i] # 0 /\ \A k \in (i + 1)..Len(in) : in[k] = 0) - 1

\* scalar.FromUniformBytes / SetUniformBytes: the 64 bytes, little-endian, mod the order
FromUniformBytes(random, g) == Reduce(random, Order(g), Fold(g))

\* Random that returns after its first draw, whatever it is
RandomNoRetry(s, random) == [val |-> FromUniformBytes(random, s.grp), done |-> TRUE]

\* Random that returns only when the draw is zero
RandomRejectsNonZero(s, random) ==
  LET v == FromUniformBytes(random, s.grp)
  IN [val |-> v, done |-> IsZero([grp |-> s.grp, val |-> v])]

\* one pass of the loop of Random: the value drawn, and whether the loop ends
Random(s, random) ==
  LET v == FromUniformBytes(random, s.grp)
  IN [val |-> v, done |-> ~IsZero([grp |-> s.grp, val |-> v])]

\* Pow that starts its ladder with s2 not squared
PowBeginNoSquare(s, scalar) ==
  LET bytes == scalar.val
      msbyte == getMSByte(bytes)
  IN [i |-> msbyte, j |-> getMSBit(bytes[msbyte + 1]) - 1, bytes |-> bytes, msbyte |-> msbyte,
      pc |-> "first", s1 |-> s.val, s2 |-> s.val]

\* Pow up to its loops: nothing if the assertion on the operand fails, else the locals
PowBegin(s, scalar) ==
  LET bytes == scalar.val
      msbyte == getMSByte(bytes)
  IN [i |-> msbyte, j |-> getMSBit(bytes[msbyte + 1]) - 1, bytes |-> bytes, msbyte |-> msbyte,
      pc |-> "first", s1 |-> s.val, s2 |-> MulMod(s.val, s.val, s.grp)]

\* the loop body with the branches for a zero bit and a one bit exchanged
PowRoundSwapped(s1, s2, b, j, g) ==
  IF Bit(b, j) = 0
  THEN <<MulMod(s1, s2, g), MulMod(s2, s2, g)>>
  ELSE <<MulMod(s1, s1, g), MulMod(s2, s1, g)>>

\* the loop body without the squaring of s1 on a zero bit
PowRoundNoSquare(s1, s2, b, j, g) ==
  IF Bit(b, j) = 0
  THEN <<s1, MulMod(s2, s1, g)>>
  ELSE <<MulMod(s1, s2, g), MulMod(s2, s2, g)>>

\* the body of both loops of Pow, for bit j of the byte b: the new <<s1, s2>>
PowRound(s1, s2, b, j, g) ==
  IF Bit(b, j) = 0
  THEN <<MulMod(s1, s1, g), MulMod(s2, s1, g)>>
  ELSE <<MulMod(s1, s2, g), MulMod(s2, s2, g)>>

\* the end of Pow without the test for a zero operand
PowEndNoZeroCheck(s, scalar, s1) == Returns(s1)

\* Pow after its loops: s is set to s1, which is One if the operand is zero
PowEnd(s, scalar, s1) == IF IsZero(scalar) THEN Returns(scOne) ELSE Returns(s1)

\* the order of group g minus 2
OrderMinusTwo(g) == SubMod(scZero, Pad(<<2>>, canonicalEncodingLength), g)

\* Invert of the library: s to the power order - 2, which is 1/s, and 0 for 0
Invert(s) == Returns(ModExp(s.val, OrderMinusTwo(s.grp), s.grp))

\* ------------------------------------------------------------------------
\* secp256k1 scalar backend (arithmetic by the bytemare/secp256k1 library)
\* ------------------------------------------------------------------------

secpMinusOne == SubMod(scZero, scOne, "secp256k1")

\* Random of the library, which draws v: by its documentation v is not zero
secpRandom(s, v) == Returns(v)

\* Invert of the library
secpInvert(s) == Returns(ModExp(s.val, OrderMinusTwo(s.grp), s.grp))

secpAdd(s, scalar) ==
  IF scalar = Nil THEN Returns(s.val)
  ELSE IF ~assert(s, scalar) THEN Panics(s.val, ErrCastScalar)
  ELSE Returns(AddMod(s.val, scalar.val, s.grp))

secpSubtract(s, scalar) ==
  IF scalar = Nil THEN Returns(s.val)
  ELSE IF ~assert(s, scalar) THEN Panics(s.val, ErrCastScalar)
  ELSE Returns(SubMod(s.val, scalar.val, s.grp))

secpMultiply(s, scalar) ==
  IF scalar = Nil THEN Zero(s)
  ELSE IF ~assert(s, scalar) THEN Panics(s.val, ErrCastScalar)
  ELSE Returns(MulMod(s.val, scalar.val, s.grp))

secpEqual(s, scalar) ==
  IF scalar = Nil THEN ReturnsBool(s.val, FALSE)
  ELSE IF ~assert(s, scalar) THEN Panics(s.val, ErrCastScalar)
  ELSE ReturnsBool(s.val, s.val = scalar.val)

secpPow(s, scalar) ==
  IF scalar = Nil \/ scalar.val = scZero THEN One(s)
  \* scalar.Equal(newScalar().One()): the operand's own Equal asserts its argument
  ELSE IF scalar.grp # "secp256k1" THEN Panics(s.val, ErrCastScalar)
  ELSE IF scalar.val = scOne THEN Returns(s.val)
  ELSE IF ~assert(s, scalar) THEN Panics(s.val, ErrCastScalar)
  ELSE Returns(ModExp(s.val, scalar.val, s.grp))

secpLessOrEqual(s, scalar) ==
  IF ~assert(s, scalar) THEN Panics(s.val, ErrCastScalar)
  ELSE ReturnsBool(s.val, Leq(s.val, scalar.val))

secpSet(s, scalar) ==
  IF scalar = Nil THEN Zero(s)
  ELSE IF ~assert(s, scalar) THEN Panics(s.val, ErrCastScalar)
  ELSE Returns(scalar.val)

\* an encoding least significant byte first
secpEncodeLittleEndian(s) == s.val

\* the big-endian encoding of the backend
secpEncode(s) == Reverse(s.val)

\* UInt64 reading the big-endian encoding as if it were little-endian
secpUInt64LittleEndian(s) ==
  LET b == secpEncode(s)
  IN IF \E i \in 9..canonicalEncodingLength : b[i] # 0
     THEN ReturnsUInt64(s.val, Pad(<<>>, 8), ErrUInt64TooBig)
     ELSE ReturnsUInt64(s.val, SubSeq(b, 1, 8), NoError)

secpUInt64(s) ==
  LET b == secpEncode(s)
  IN IF \E i \in 1..(canonicalEncodingLength - 8) : b[i] # 0
     THEN ReturnsUInt64(s.val, Pad(<<>>, 8), ErrUInt64TooBig)
     ELSE ReturnsUInt64(s.val, Reverse(SubSeq(b, canonicalEncodingLength - 7, canonicalEncodingLength)),
                        NoError)

\* the library sets the scalar to the uint64
secpSetUInt64(s, i) == Returns(Pad(i, canonicalEncodingLength))

secpCopy(s) == [grp |-> s.grp, val |-> s.val]

\* Decode of the library, for a big-endian input: the error it returns, if any,
\* and the value it sets; empty is the error it returns for the empty input
secpLibraryDecode(s, in, empty) ==
  IF Len(in) = 0 THEN ReturnsError(s.val, empty)
  ELSE IF Len(in) # canonicalEncodingLength THEN ReturnsError(s.val, ErrLibraryScalarLength)
  ELSE IF GeqFrom(Reverse(in), secpOrder, Len(in)) THEN ReturnsError(s.val, ErrLibraryScalarTooBig)
  ELSE ReturnsError(Reverse(in), NoError)

secpDecode(s, in, empty) ==
  LET r == secpLibraryDecode(s, in, empty)
  IN IF r.err = ErrLibraryScalarTooBig THEN ReturnsError(r.val, ErrParamScalarInvalidEncoding) ELSE r

\* Hex and DecodeHex of the library: the hexadecimal form of Encode, and Decode
\* of the bytes the string stands for
secpHex(s) == EncodeToString(secpEncode(s))

secpDecodeHex(s, h, empty) ==
  LET b == DecodeString(h)
  IN IF b.err # NoError THEN ReturnsError(s.val, b.err) ELSE secpLibraryDecode(s, b.bytes, empty)

\* ------------------------------------------------------------------------
\* The public Scalar wrapper (package ecc)
\* ------------------------------------------------------------------------

ScalarZero(s) == Zero(s)

ScalarOne(s) == One(s)

ScalarMinusOne(s) == IF s.grp = "secp256k1" THEN Returns(secpMinusOne) ELSE MinusOne(s)

ScalarInvert(s) == IF s.grp = "secp256k1" THEN secpInvert(s) ELSE Invert(s)

\* Add treating a nil operand as Multiply does
ScalarAddNilZeroes(s, scalar) ==
  IF scalar = Nil THEN ScalarZero(s)
  ELSE IF s.grp = "secp256k1" THEN secpAdd(s, scalar) ELSE Add(s, scalar)

ScalarAdd(s, scalar) ==
  IF scalar = Nil THEN Returns(s.val)
  ELSE IF s.grp = "secp256k1" THEN secpAdd(s, scalar) ELSE Add(s, scalar)

ScalarSubtract(s, scalar) ==
  IF scalar = Nil THEN Returns(s.val)
  ELSE IF s.grp = "secp256k1" THEN secpSubtract(s, scalar) ELSE Subtract(s, scalar)

\* Multiply treating a nil operand as Add does
ScalarMultiplyNilNoOp(s, scalar) ==
  IF scalar = Nil THEN Returns(s.val)
  ELSE IF s.grp = "secp256k1" THEN secpMultiply(s, scalar) ELSE Multiply(s, scalar)

ScalarMultiply(s, scalar) ==
  IF scalar = Nil THEN ScalarZero(s)
  ELSE IF s.grp = "secp256k1" THEN secpMultiply(s, scalar) ELSE Multiply(s, scalar)

ScalarEqual(s, scalar) ==
  IF scalar = Nil THEN ReturnsBool(s.val, FALSE)
  ELSE LET r == IF s.grp = "secp256k1" THEN secpEqual(s, scalar) ELSE Equal(s, scalar)
       IN IF r.fault # NoFault THEN r ELSE ReturnsBool(s.val, r.bool = "true")

ScalarLessOrEqual(s, scalar) ==
  IF scalar = Nil THEN ReturnsBool(s.val, FALSE)
  ELSE LET r == IF s.grp = "secp256k1" THEN secpLessOrEqual(s, scalar) ELSE LessOrEqual(s, scalar)
       IN IF r.fault # NoFault THEN r ELSE ReturnsBool(s.val, r.bool = "true")

ScalarSet(s, scalar) ==
  IF scalar = Nil THEN ScalarZero(s)
  ELSE IF s.grp = "secp256k1" THEN secpSet(s, scalar) ELSE Set(s, scalar)

ScalarUInt64(s) ==
  LET r == IF s.grp = "secp256k1" THEN secpUInt64(s) ELSE UInt64(s)
  IN IF r.err # NoError THEN ReturnsUInt64(s.val, Pad(<<>>, 8), r.err) ELSE r

ScalarLength(g) == canonicalEncodingLength

ScalarSetUInt64(s, i) == IF s.grp = "secp256k1" THEN secpSetUInt64(s, i) ELSE SetUInt64(s, i)

ScalarEncode(s) == ReturnsBytes(s.val, IF s.grp = "secp256k1" THEN secpEncode(s) ELSE Encode(s))

ScalarDecode(s, data, empty) ==
  Wrapped(IF s.grp = "secp256k1" THEN secpDecode(s, data, empty) ELSE Decode(s, data),
          "scalar Decode: ")

ScalarHex(s) == ReturnsBytes(s.val, IF s.grp = "secp256k1" THEN secpHex(s) ELSE Hex(s))

ScalarDecodeHex(s, h, empty) ==
  Wrapped(IF s.grp = "secp256k1" THEN secpDecodeHex(s, h, empty) ELSE DecodeHex(s, h),
          "scalar DecodeHex: ")

ScalarMarshalJSON(s) == ReturnsBytes(s.val, Quoted(ScalarHex(s).bytes))

ScalarUnmarshalJSON(s, data, empty) == ScalarDecodeHex(s, ReplaceAll(data, Quote), empty)

ScalarMarshalBinary(s) == ScalarEncode(s)

ScalarUnmarshalBinary(s, data, empty) ==
  Wrapped(IF s.grp = "secp256k1" THEN secpDecode(s, data, empty) ELSE Decode(s, data),
          "scalar UnmarshalBinary: ")

\* the backend object of the copy
ScalarCopy(s) == IF s.grp = "secp256k1" THEN secpCopy(s) ELSE Copy(s)

\* ------------------------------------------------------------------------
\* The public Element wrapper and the edwards25519 element backend.
\* The points of the curve are the sums k.B + t.T of a multiple of the base
\* point B, of prime order, and a multiple of a point T of order 8. An element
\* made from B, T and the identity is held as val = k, modulo the order, and
\* tor = t, modulo 8. An element decoded from bytes that are the encoding of no
\* point of CurvePoints is held by the encoding of its point: val is what
\* Point.Bytes gives for it and tor is 8.
\* ------------------------------------------------------------------------

NilElement == [grp |-> "nil", val |-> <<>>, tor |-> 0]

ErrParamInvalidPointEncoding == "ErrParamInvalidPointEncoding"

ErrIdentity == "ErrIdentity"

\* the errors of Point.SetBytes of the edwards25519 library
ErrLibraryPointLength == "edwards25519: invalid point encoding length"

ErrLibraryPointEncoding == "edwards25519: invalid point encoding"

\* outcomes of a call on an element, which is k.B + t.T
ReturnsElement(k, t) ==
  [val |-> k, self |-> TRUE, bool |-> "none", err |-> NoError, fault |-> NoFault, tor |-> t]

ElementPanics(e, f) ==
  [val |-> e.val, self |-> FALSE, bool |-> "none", err |-> NoError, fault |-> f, tor |-> e.tor]

\* Decode ends with the element k.B + t.T and the error err under the prefixes wrap
ElementError(k, t, err, wrap) ==
  [val |-> k, self |-> FALSE, bool |-> "none", err |-> err, fault |-> NoFault, wrap |-> wrap,
   tor |-> t]

ElementBytes(e, b) ==
  [val |-> e.val, self |-> FALSE, bool |-> "none", err |-> NoError, fault |-> NoFault, bytes |-> b,
   tor |-> e.tor]

\* the outcome of checkElement: the fault it ends with, if any
checkElement(e, element) ==
  IF element = NilElement THEN ErrParamNilPoint
  ELSE IF element.grp # e.grp THEN ErrCastElement
  ELSE NoFault

Base(e) == ReturnsElement(scOne, 0)

Identity(e) == ReturnsElement(scZero, 0)

\* n bytes of value v
Rep(v, n) == SubSeq([i \in 1..n |-> v], 1, n)

\* the encoding b with the sign bit of x set
WithSign(b) == [b EXCEPT ![canonicalEncodingLength] = @ + 128]

encodingB == <<88>> \o Rep(102, 31)

encoding2B ==
  <<201, 163, 248, 106, 174, 70, 95, 14, 86, 81, 56, 100, 81, 15, 57, 151,
    86, 31, 162, 201, 232, 94, 162, 29, 194, 41, 35, 9, 243, 205, 96, 34>>

encodingT ==
  <<199, 23, 106, 112, 61, 77, 216, 79, 186, 60, 11, 118, 13, 16, 103, 15,
    42, 32, 83, 250, 44, 57, 204, 198, 78, 199, 253, 119, 146, 172, 3, 122>>

encoding3T ==
  <<38, 232, 149, 143, 194, 178, 39, 176, 69, 195, 244, 137, 242, 239, 152, 240,
    213, 223, 172, 5, 211, 198, 51, 57, 177, 56, 2, 136, 109, 83, 252, 5>>

\* the points of the curve the model decodes and encodes, k.B + t.T with the
\* encoding Point.Bytes gives each: the identity, B, 2.B, -B, -2.B and the
\* seven other points of order at most 8
CurvePoints ==
  {[t |-> 0, k |-> scZero, bytes |-> scOne],
   [t |-> 0, k |-> scOne, bytes |-> encodingB],
   [t |-> 0, k |-> Pad(<<2>>, canonicalEncodingLength), bytes |-> encoding2B],
   [t |-> 0, k |-> scMinusOne, bytes |-> WithSign(encodingB)],
   [t |-> 0, k |-> SubMod(scZero, Pad(<<2>>, canonicalEncodingLength), "edwards25519"),
    bytes |-> WithSign(encoding2B)],
   [t |-> 1, k |-> scZero, bytes |-> encodingT],
   [t |-> 2, k |-> scZero, bytes |-> WithSign(scZero)],
   [t |-> 3, k |-> scZero, bytes |-> encoding3T],
   [t |-> 4, k |-> scZero, bytes |-> <<236>> \o Rep(255, 30) \o <<127>>],
   [t |-> 5, k |-> scZero, bytes |-> WithSign(encoding3T)],
   [t |-> 6, k |-> scZero, bytes |-> scZero],
   [t |-> 7, k |-> scZero, bytes |-> WithSign(encodingT)]}

\* the sign bit of an encoding
SignOf(b) == b[canonicalEncodingLength] \div 128

\* the y of an encoding: its low 255 bits, taken modulo the prime of the field
YOf(b) ==
  Pick({IF GeqFrom(raw, fieldPrime, canonicalEncodingLength)
        THEN Normalise([i \in 1..canonicalEncodingLength |-> raw[i] - fieldPrime[i]], canonicalEncodingLength)
        ELSE raw :
          raw \in {[b EXCEPT ![canonicalEncodingLength] = @ % 128]}})

\* the constant d of the curve, -121665/121666
fieldD ==
  <<163, 120, 89, 19, 202, 77, 235, 117, 171, 216, 65, 65, 77, 10, 112, 0,
    152, 232, 121, 119, 121, 64, 199, 140, 115, 254, 111, 43, 238, 108, 3, 82>>

\* a square root of -1
sqrtM1 ==
  <<176, 160, 14, 74, 39, 27, 238, 196, 120, 228, 47, 173, 6, 24, 67, 47,
    167, 215, 251, 61, 153, 0, 77, 43, 11, 223, 193, 79, 128, 36, 131, 43>>

\* the x of the base point B and of the point T of order 8
baseX ==
  <<26, 213, 37, 143, 96, 45, 86, 201, 178, 167, 37, 149, 96, 199, 44, 105,
    92, 220, 214, 253, 49, 226, 164, 192, 254, 83, 110, 205, 211, 54, 105, 33>>

torsionX ==
  <<74, 209, 69, 197, 70, 70, 161, 222, 56, 226, 229, 19, 112, 60, 25, 92,
    187, 74, 222, 56, 50, 153, 51, 233, 40, 74, 57, 6, 160, 185, 213, 31>>

\* ------------------------------------------------------------------------
\* The field of the curve (filippo.io/edwards25519/field): an element of the
\* field is the 32 bytes of its value below the prime, little-endian
\* ------------------------------------------------------------------------

\* digit k of a * b modulo 2^256 - 38, before the carries: the sum of the
\* a[i] * b[j] with i + j = k + 1, and of 38 times those with i + j = k + 33
ProductDigit(a, b, k) ==
  a[1] * b[((k + 31) % 32) + 1] * (IF k < 1 THEN 38 ELSE 1)
  + a[2] * b[((k + 30) % 32) + 1] * (IF k < 2 THEN 38 ELSE 1)
  + a[3] * b[((k + 29) % 32) + 1] * (IF k < 3 THEN 38 ELSE 1)
  + a[4] * b[((k + 28) % 32) + 1] * (IF k < 4 THEN 38 ELSE 1)
  + a[5] * b[((k + 27) % 32) + 1] * (IF k < 5 THEN 38 ELSE 1)
  + a[6] * b[((k + 26) % 32) + 1] * (IF k < 6 THEN 38 ELSE 1)
  + a[7] * b[((k + 25) % 32) + 1] * (IF k < 7 THEN 38 ELSE 1)
  + a[8] * b[((k + 24) % 32) + 1] * (IF k < 8 THEN 38 ELSE 1)
  + a[9] * b[((k + 23) % 32) + 1] * (IF k < 9 THEN 38 ELSE 1)
  + a[10] * b[((k + 22) % 32) + 1] * (IF k < 10 THEN 38 ELSE 1)
  + a[11] * b[((k + 21) % 32) + 1] * (IF k < 11 THEN 38 ELSE 1)
  + a[12] * b[((k + 20) % 32) + 1] * (IF k < 12 THEN 38 ELSE 1)
  + a[13] * b[((k + 19) % 32) + 1] * (IF k < 13 THEN 38 ELSE 1)
  + a[14] * b[((k + 18) % 32) + 1] * (IF k < 14 THEN 38 ELSE 1)
  + a[15] * b[((k + 17) % 32) + 1] * (IF k < 15 THEN 38 ELSE 1)
  + a[16] * b[((k + 16) % 32) + 1] * (IF k < 16 THEN 38 ELSE 1)
  + a[17] * b[((k + 15) % 32) + 1] * (IF k < 17 THEN 38 ELSE 1)
  + a[18] * b[((k + 14) % 32) + 1] * (IF k < 18 THEN 38 ELSE 1)
  + a[19] * b[((k + 13) % 32) + 1] * (IF k < 19 THEN 38 ELSE 1)
  + a[20] * b[((k + 12) % 32) + 1] * (IF k < 20 THEN 38 ELSE 1)
  + a[21] * b[((k + 11) % 32) + 1] * (IF k < 21 THEN 38 ELSE 1)
  + a[22] * b[((k + 10) % 32) + 1] * (IF k < 22 THEN 38 ELSE 1)
  + a[23] * b[((k + 9) % 32) + 1] * (IF k < 23 THEN 38 ELSE 1)
  + a[24] * b[((k + 8) % 32) + 1] * (IF k < 24 THEN 38 ELSE 1)
  + a[25] * b[((k + 7) % 32) + 1] * (IF k < 25 THEN 38 ELSE 1)
  + a[26] * b[((k + 6) % 32) + 1] * (IF k < 26 THEN 38 ELSE 1)
  + a[27] * b[((k + 5) % 32) + 1] * (IF k < 27 THEN 38 ELSE 1)
  + a[28] * b[((k + 4) % 32) + 1] * (IF k < 28 THEN 38 ELSE 1)
  + a[29] * b[((k + 3) % 32) + 1] * (IF k < 29 THEN 38 ELSE 1)
  + a[30] * b[((k + 2) % 32) + 1] * (IF k < 30 THEN 38 ELSE 1)
  + a[31] * b[((k + 1) % 32) + 1] * (IF k < 31 THEN 38 ELSE 1)
  + a[32] * b[((k + 0) % 32) + 1] * (IF k < 32 THEN 38 ELSE 1)

\* Element.Multiply: a * b modulo the prime
fMul(a, b) ==
  Pick({Pick({Pick({SubSeq(Correct(f, fieldPrime), 1, canonicalEncodingLength) :
                      f \in {Normalise([i \in 1..33 |->
                                          IF i <= 4 THEN c[i] + 38 * c[32 + i] ELSE IF i = 33 THEN 0 ELSE c[i]],
                                       33)}}) :
                c \in {Normalise([k \in 1..36 |-> IF k <= 32 THEN ProductDigit(xy[1], xy[2], k) ELSE 0], 36)}}) :
          xy \in {<<a, b>>}})

fAdd(a, b) == AddMod(a, b, "field")

fSub(a, b) == SubMod(a, b, "field")

fNeg(a) == SubMod(scZero, a, "field")

\* a squared n times, n > 0
RECURSIVE fSqrN(_, _)
fSqrN(a, n) ==
  IF n = 1 THEN fMul(a, a)
  ELSE Pick({fSqrN(h, n - (n \div 2)) : h \in {fSqrN(a, n \div 2)}})

\* a to the power 2^n - 1, n > 0
RECURSIVE fAllOnes(_, _)
fAllOnes(a, n) ==
  IF n = 1 THEN a
  ELSE IF n % 2 = 1 THEN Pick({fMul(fMul(h, h), a) : h \in {fAllOnes(a, n - 1)}})
  ELSE Pick({fMul(fSqrN(h, n \div 2), h) : h \in {fAllOnes(a, n \div 2)}})

\* Element.Invert: a to the power p - 2, which is 2^255 - 21
fInvert(a) ==
  Pick({Pick({fMul(fSqrN(h, 5), fMul(fMul(fSqrN(x, 3), fMul(x, x)), x)) : h \in {fAllOnes(x, 250)}}) :
          x \in {a}})

\* Element.Pow22523: a to the power (p - 5) / 8, which is 2^252 - 3
Pow22523(a) == Pick({Pick({fMul(fSqrN(h, 2), x) : h \in {fAllOnes(x, 250)}}) : x \in {a}})

\* Element.IsNegative: the lowest bit of the value
IsNegative(a) == a[1] % 2

\* Element.Absolute
Absolute(a) == IF IsNegative(a) = 1 THEN fNeg(a) ELSE a

\* Element.SqrtRatio: <<r, wasSquare>>, r the non-negative square root of u/v
\* when u/v is a square, and of sqrtM1 times u/v when it is not
SqrtRatio(u, v) ==
  LET v3 == Pick({fMul(fMul(x, x), x) : x \in {v}})
      v7 == Pick({fMul(fMul(x, x), v) : x \in {v3}})
      r == Pick({fMul(fMul(u, v3), Pow22523(fMul(u, x))) : x \in {v7}})
  IN Pick({Pick({<<Absolute(IF check \in {fNeg(u), fNeg(fMul(u, sqrtM1))} THEN fMul(r0, sqrtM1) ELSE r0),
                   check \in {u, fNeg(u)}>> :
                   check \in {fMul(v, fMul(r0, r0))}}) :
             r0 \in {r}})
\* ------------------------------------------------------------------------
\* Points of the curve (filippo.io/edwards25519): a point is <<X, Y, Z, T>>,
\* its extended coordinates, with x = X/Z, y = Y/Z and x.y = T/Z
\* ------------------------------------------------------------------------

identityPoint == <<scZero, scOne, scOne, scZero>>

basePoint == <<baseX, encodingB, scOne, fMul(baseX, encodingB)>>

torsionPoint == <<torsionX, encodingT, scOne, fMul(torsionX, encodingT)>>

\* Point.Add
PointAdd(p, q) ==
  LET yMinusX == fMul(fSub(p[2], p[1]), fSub(q[2], q[1]))
      yPlusX == fMul(fAdd(p[2], p[1]), fAdd(q[2], q[1]))
      tt2d == fMul(fMul(p[4], fAdd(fieldD, fieldD)), q[4])
      zz2 == fMul(fAdd(p[3], p[3]), q[3])
  IN Pick({Pick({<<fMul(w[1], w[2]), fMul(w[3], w[4]), fMul(w[2], w[3]), fMul(w[1], w[4])>> :
                   w \in {<<fSub(v[2], v[1]), fSub(v[4], v[3]), fAdd(v[4], v[3]), fAdd(v[2], v[1])>>}}) :
             v \in {<<yMinusX, yPlusX, tt2d, zz2>>}})

\* Point.Negate
PointNegate(p) == <<fNeg(p[1]), p[2], p[3], fNeg(p[4])>>

\* one step of the double-and-add: st = <<sum so far, the point times 2^k>>
PointStep(st, s, k) ==
  <<IF Bit(s[(k \div 8) + 1], k % 8) = 1 THEN PointAdd(st[1], st[2]) ELSE st[1],
    PointAdd(st[2], st[2])>>

RECURSIVE PointRun(_, _, _, _)
PointRun(st, s, lo, hi) ==
  IF lo = hi THEN PointStep(st, s, lo)
  ELSE Pick({PointRun(h, s, (lo + hi) \div 2 + 1, hi) : h \in {PointRun(st, s, lo, (lo + hi) \div 2)}})

\* Point.ScalarMult: the point p times the integer of the bytes s
ScalarMult(s, p) ==
  IF s = Pad(<<>>, Len(s)) THEN identityPoint
  ELSE Pick({PointRun(<<identityPoint, q>>, x, 0, TopBit(x))[1] : x \in {s}, q \in {p}})

\* the point with the same x and y and Z = 1
Affine(p) ==
  Pick({Pick({<<x, y, scOne, fMul(x, y)>> : x \in {fMul(p[1], zInv)}, y \in {fMul(p[2], zInv)}}) :
          zInv \in {fInvert(p[3])}})

\* Point.Bytes of a point with Z = 1: y, and the sign of x in the highest bit
AffineBytes(p) == [p[2] EXCEPT ![canonicalEncodingLength] = @ + 128 * IsNegative(p[1])]

\* Point.SetBytes by the arithmetic of the field: x is the square root of
\* (y^2 - 1) / (d.y^2 + 1) with the sign asked for
Decompress(b) ==
  LET y == YOf(b)
      y2 == fMul(y, y)
  IN Pick({IF ~r[2] THEN <<>>
           ELSE Pick({<<x, y, scOne, fMul(x, y)>> : x \in {IF SignOf(b) = 1 THEN fNeg(r[1]) ELSE r[1]}}) :
             r \in {SqrtRatio(fSub(y2, scOne), fAdd(fMul(y2, fieldD), scOne))}})

\* k.B, by the double-and-add on the smaller of k and the order minus k
BaseMult(k) ==
  Pick({IF Leq(k, neg) THEN ScalarMult(k, basePoint) ELSE PointNegate(ScalarMult(neg, basePoint)) :
          neg \in {SubMod(scZero, k, "edwards25519")}})

\* the point an element holds
PointOf(e) ==
  IF e.tor = 8 THEN Decompress(e.val)
  ELSE IF e.tor = 0 THEN BaseMult(e.val)
  ELSE PointAdd(BaseMult(e.val), ScalarMult(<<e.tor>>, torsionPoint))

\* the receiver now holds the point p: as k and t when p is a point of
\* CurvePoints, else by its encoding
Holding(p) ==
  Pick({IF {r \in CurvePoints : r.bytes = b} = {} THEN ReturnsElement(b, 8)
        ELSE Pick({ReturnsElement(r.k, r.t) : r \in {r \in CurvePoints : r.bytes = b}}) :
          b \in {AffineBytes(Affine(p))}})

\* Point.Add, Point.Subtract and Point.Negate of the library, on the points
\* two elements hold
Sum(e, element) ==
  IF e.tor # 8 /\ element.tor # 8
  THEN ReturnsElement(AddMod(e.val, element.val, e.grp), (e.tor + element.tor) % 8)
  ELSE Holding(PointAdd(PointOf(e), PointOf(element)))

Difference(e, element) ==
  IF e.tor # 8 /\ element.tor # 8
  THEN ReturnsElement(SubMod(e.val, element.val, e.grp), (e.tor + 8 - element.tor) % 8)
  ELSE Holding(PointAdd(PointOf(e), PointNegate(PointOf(element))))

Negation(e) ==
  IF e.tor # 8 THEN ReturnsElement(SubMod(scZero, e.val, e.grp), (8 - e.tor) % 8)
  ELSE Holding(PointNegate(PointOf(e)))

\* Point.ScalarMult of the library: the scalar s times k.B + t.T is
\* (s.k mod the order).B + (s.t mod 8).T
Product(s, e) ==
  IF e.tor # 8 THEN ReturnsElement(MulMod(e.val, s, e.grp), (e.tor * (s[1] % 8)) % 8)
  ELSE Holding(ScalarMult(s, PointOf(e)))

edwardsAdd(e, element) ==
  IF checkElement(e, element) # NoFault THEN ElementPanics(e, checkElement(e, element))
  ELSE Sum(e, element)

edwardsDouble(e) == Sum(e, e)

edwardsNegate(e) == Negation(e)

\* Subtract that adds
edwardsSubtractAdds(e, element) ==
  IF checkElement(e, element) # NoFault THEN ElementPanics(e, checkElement(e, element))
  ELSE Sum(e, element)

edwardsSubtract(e, element) ==
  IF checkElement(e, element) # NoFault THEN ElementPanics(e, checkElement(e, element))
  ELSE Difference(e, element)

edwardsMultiply(e, scalar) ==
  IF scalar = Nil THEN Identity(e)
  ELSE IF ~assert(e, scalar) THEN ElementPanics(e, ErrCastScalar)
  ELSE Product(scalar.val, e)

\* Set of the backend: the identity for nil, a fault for an element of another
\* backend, else the value of the argument
edwardsSet(e, element) ==
  IF element = NilElement THEN Identity(e)
  ELSE IF element.grp # e.grp THEN ElementPanics(e, ErrCastElement)
  ELSE ReturnsElement(element.val, element.tor)

ElementAdd(e, element) ==
  IF element = NilElement THEN ReturnsElement(e.val, e.tor)
  ELSE edwardsAdd(e, element)

ElementDouble(e) == edwardsDouble(e)

ElementNegate(e) == edwardsNegate(e)

ElementSubtract(e, element) ==
  IF element = NilElement THEN ReturnsElement(e.val, e.tor)
  ELSE edwardsSubtract(e, element)

\* Multiply that leaves the element as it is when the scalar is nil
ElementMultiplyNilNoOp(e, scalar) ==
  IF scalar = Nil THEN ReturnsElement(e.val, e.tor)
  ELSE edwardsMultiply(e, scalar)

ElementMultiply(e, scalar) ==
  IF scalar = Nil THEN Identity(e)
  ELSE edwardsMultiply(e, scalar)

ElementSet(e, element) == edwardsSet(e, element)

\* Point.SetBytes of the library. For the y of a point of CurvePoints: of the
\* points with this y, the one whose x has the sign asked for, or the only one
\* when x is zero. For any other y: the point Decompress gives, if any, held
\* by its encoding.
SetBytes(b) ==
  IF Len(b) # canonicalEncodingLength THEN [t |-> 0, k |-> <<>>, err |-> ErrLibraryPointLength]
  ELSE LET onCurve == {r \in CurvePoints : YOf(r.bytes) = YOf(b)}
           signed == {r \in onCurve : SignOf(r.bytes) = SignOf(b)}
       IN IF onCurve = {}
          THEN Pick({IF p = <<>> THEN [t |-> 0, k |-> <<>>, err |-> ErrLibraryPointEncoding]
                     ELSE [t |-> 8, k |-> AffineBytes(p), err |-> NoError] :
                       p \in {Decompress(b)}})
          ELSE LET r == CHOOSE r \in (IF signed # {} THEN signed ELSE onCurve) : TRUE
               IN [t |-> r.t, k |-> r.k, err |-> NoError]

\* Point.Bytes of the library
Bytes(e) ==
  IF e.tor = 8 THEN e.val
  ELSE IF \E r \in CurvePoints : r.k = e.val /\ r.t = e.tor
  THEN (CHOOSE r \in CurvePoints : r.k = e.val /\ r.t = e.tor).bytes
  ELSE AffineBytes(Affine(PointOf(e)))

decodeElement(element) ==
  IF Len(element) = 0 THEN [t |-> 0, k |-> <<>>, err |-> ErrParamInvalidPointEncoding]
  ELSE SetBytes(element)

\* Decode that takes the encodings of the identity
edwardsDecodeNoIdentityCheck(e, data) ==
  LET r == decodeElement(data)
  IN IF r.err # NoError THEN ElementError(e.val, e.tor, r.err, <<>>)
     ELSE ElementError(r.k, r.t, NoError, <<>>)

\* Decode that overwrites the receiver before the identity check
edwardsDecodeWritesFirst(e, data) ==
  LET r == decodeElement(data)
  IN IF r.err # NoError THEN ElementError(e.val, e.tor, r.err, <<>>)
     ELSE IF r.k = scZero /\ r.t = 0
     THEN ElementError(r.k, r.t, ErrIdentity, <<"invalid edwards25519 encoding: ">>)
     ELSE ElementError(r.k, r.t, NoError, <<>>)

edwardsDecode(e, data) ==
  LET r == decodeElement(data)
  IN IF r.err # NoError THEN ElementError(e.val, e.tor, r.err, <<>>)
     ELSE IF r.k = scZero /\ r.t = 0
     THEN ElementError(e.val, e.tor, ErrIdentity, <<"invalid edwards25519 encoding: ">>)
     ELSE ElementError(r.k, r.t, NoError, <<>>)

edwardsEncode(e) == Bytes(e)

ElementEncode(e) == ElementBytes(e, edwardsEncode(e))

edwardsHex(e) == EncodeToString(edwardsEncode(e))

edwardsDecodeHex(e, h) ==
  LET b == DecodeString(h)
  IN IF b.err # NoError THEN ElementError(e.val, e.tor, b.err, <<>>) ELSE edwardsDecode(e, b.bytes)

\* the outcome r of the backend, its error under the prefix of the wrapper
ElementWrapped(r, prefix) ==
  IF r.err = NoError THEN r ELSE ElementError(r.val, r.tor, r.err, <<prefix>> \o r.wrap)

ElementDecode(e, data) == ElementWrapped(edwardsDecode(e, data), "element Decode: ")

ElementHex(e) == ElementBytes(e, edwardsHex(e))

ElementDecodeHex(e, h) == ElementWrapped(edwardsDecodeHex(e, h), "element DecodeHex: ")

ElementMarshalJSON(e) == ElementBytes(e, Quoted(edwardsHex(e)))

ElementUnmarshalJSON(e, data) == ElementDecodeHex(e, ReplaceAll(data, Quote))

ElementMarshalBinary(e) == ElementBytes(e, edwardsEncode(e))

ElementUnmarshalBinary(e, data) ==
  ElementWrapped(edwardsDecode(e, data), "element UnmarshalBinary: ")

\* ------------------------------------------------------------------------
\* SHA-512 (crypto/sha512). A word of 64 bits is the sequence of its bits,
\* the least significant first.
\* ------------------------------------------------------------------------

\* the round constants and the initial hash value, each word as its four
\* 16-bit parts, the most significant first
sha512K ==
  <<<<17034, 12184, 55080, 44578>>, <<28983, 17553, 9199, 26061>>, <<46528, 64463, 60493, 15151>>, <<59829, 56229, 33161, 56252>>,
    <<14678, 49755, 62280, 46392>>, <<23025, 4593, 46597, 53273>>, <<37439, 33444, 44825, 20379>>, <<43804, 24277, 55917, 33048>>,
    <<55303, 43672, 41731, 578>>, <<4739, 23297, 17776, 28606>>, <<9265, 34238, 20196, 45708>>, <<21772, 32195, 54783, 46306>>,
    <<29374, 23924, 62075, 35183>>, <<32990, 45566, 15126, 38577>>, <<39900, 1703, 9671, 4661>>, <<49563, 61812, 53097, 9876>>,
    <<58523, 27073, 40689, 19154>>, <<61374, 18310, 14415, 9699>>, <<4033, 40390, 35724, 54709>>, <<9228, 41420, 30636, 40037>>,
    <<11753, 11375, 22827, 629>>, <<19060, 33962, 28326, 58499>>, <<23728, 43484, 48449, 64468>>, <<30457, 35034, 33553, 21429>>,
    <<38974, 20818, 61030, 57259>>, <<43057, 50797, 11700, 12816>>, <<45059, 10184, 39163, 8511>>, <<48985, 32711, 48879, 3812>>,
    <<50912, 3059, 15784, 36802>>, <<54695, 37191, 37642, 42789>>, <<1738, 25425, 57347, 33391>>, <<5161, 10599, 2574, 28272>>,
    <<10167, 2693, 18130, 12284>>, <<11803, 8504, 23590, 51494>>, <<19756, 28156, 23236, 10989>>, <<21304, 3347, 40341, 46047>>,
    <<25866, 29524, 35759, 25566>>, <<30314, 2747, 15479, 45736>>, <<33218, 51502, 18413, 44774>>, <<37490, 11397, 5250, 13627>>,
    <<41663, 59553, 19697, 868>>, <<43034, 26187, 48194, 12289>>, <<49739, 35696, 53496, 38801>>, <<51052, 20899, 1620, 48688>>,
    <<53650, 59417, 55023, 21016>>, <<54937, 1572, 21861, 43280>>, <<62478, 13701, 22385, 8234>>, <<4202, 41072, 12987, 53688>>,
    <<6564, 49430, 47314, 53448>>, <<7735, 27656, 20801, 43859>>, <<10056, 30540, 57230, 60313>>, <<13488, 48309, 57755, 18600>>,
    <<14620, 3251, 50633, 23139>>, <<20184, 43594, 58177, 35531>>, <<23452, 51791, 30563, 58227>>, <<26670, 28659, 54962, 47267>>,
    <<29839, 33518, 24047, 45820>>, <<30885, 25455, 17175, 12128>>, <<33992, 30740, 41456, 43890>>, <<36039, 520, 6756, 14828>>,
    <<37054, 65530, 9059, 7720>>, <<42064, 27883, 56962, 48617>>, <<48889, 41975, 45766, 30997>>, <<50801, 30962, 58226, 21291>>,
    <<51751, 16078, 59942, 24988>>, <<53638, 47303, 8640, 49671>>, <<60122, 32214, 52704, 60190>>, <<62845, 20351, 61038, 53624>>,
    <<1776, 26538, 29207, 28602>>, <<2659, 32197, 41672, 39078>>, <<4415, 38916, 48889, 3502>>, <<7025, 2869, 4892, 18203>>,
    <<10459, 30709, 8964, 32132>>, <<13002, 43899, 16583, 9363>>, <<15518, 48650, 5577, 48828>>, <<17181, 26564, 39952, 3404>>,
    <<19653, 54462, 52030, 17078>>, <<22911, 10652, 64613, 32298>>, <<24523, 28587, 15062, 64236>>, <<27716, 6540, 19015, 22551>>>>

sha512Init ==
  <<<<27145, 58983, 62396, 51464>>, <<47975, 44677, 33994, 42811>>, <<15470, 62322, 65172, 63531>>, <<42319, 62778, 24349, 14065>>,
    <<20750, 21119, 44518, 33489>>, <<39685, 26764, 11070, 27679>>, <<8067, 55723, 64321, 48491>>, <<23520, 52505, 4990, 8569>>>>

\* the word of four 16-bit parts, the most significant first
WordOf(parts) ==
  SubSeq([i \in 1..64 |-> (parts[4 - ((i - 1) \div 16)] \div (2 ^ ((i - 1) % 16))) % 2], 1, 64)

\* the word of the eight bytes of b from position at, big-endian
WordAt(b, at) ==
  SubSeq([i \in 1..64 |-> (b[at + 7 - ((i - 1) \div 8)] \div (2 ^ ((i - 1) % 8))) % 2], 1, 64)

\* the eight bytes of a word, big-endian
BytesOfWord(w) ==
  SubSeq([j \in 1..8 |->
            w[65 - 8 * j] + 2 * w[66 - 8 * j] + 4 * w[67 - 8 * j] + 8 * w[68 - 8 * j]
            + 16 * w[69 - 8 * j] + 32 * w[70 - 8 * j] + 64 * w[71 - 8 * j] + 128 * w[72 - 8 * j]],
         1, 8)

\* the 16-bit part j (0 the least significant) of a word
Part(w, j) ==
  w[16 * j + 1] + 2 * w[16 * j + 2] + 4 * w[16 * j + 3] + 8 * w[16 * j + 4]
  + 16 * w[16 * j + 5] + 32 * w[16 * j + 6] + 64 * w[16 * j + 7] + 128 * w[16 * j + 8]
  + 256 * w[16 * j + 9] + 512 * w[16 * j + 10] + 1024 * w[16 * j + 11] + 2048 * w[16 * j + 12]
  + 4096 * w[16 * j + 13] + 8192 * w[16 * j + 14] + 16384 * w[16 * j + 15] + 32768 * w[16 * j + 16]

\* the sum of the words ws, modulo 2^64
RECURSIVE SumOfParts(_, _, _)
SumOfParts(ws, j, n) == IF n = 0 THEN 0 ELSE Part(ws[n], j) + SumOfParts(ws, j, n - 1)

AddWords(ws) ==
  LET s0 == SumOfParts(ws, 0, Len(ws))
      s1 == SumOfParts(ws, 1, Len(ws)) + (s0 \div 65536)
      s2 == SumOfParts(ws, 2, Len(ws)) + (s1 \div 65536)
      s3 == SumOfParts(ws, 3, Len(ws)) + (s2 \div 65536)
  IN Pick({WordOf(<<p[4] % 65536, p[3] % 65536, p[2] % 65536, p[1] % 65536>>) :
             p \in {Pick({Pick({Pick({<<a, b, c, s3>> : c \in {s2}}) : b \in {s1}}) : a \in {s0}})}})

\* bit i (from 1) of the word w rotated right by n, and shifted right by n
RotBit(w, i, n) == w[((i - 1 + n) % 64) + 1]

ShrBit(w, i, n) == IF i + n <= 64 THEN w[i + n] ELSE 0

\* the functions of FIPS 180-4, section 4.1.3
BigSigma0(x) == SubSeq([i \in 1..64 |-> (RotBit(x, i, 28) + RotBit(x, i, 34) + RotBit(x, i, 39)) % 2], 1, 64)

BigSigma1(x) == SubSeq([i \in 1..64 |-> (RotBit(x, i, 14) + RotBit(x, i, 18) + RotBit(x, i, 41)) % 2], 1, 64)

SmallSigma0(x) == SubSeq([i \in 1..64 |-> (RotBit(x, i, 1) + RotBit(x, i, 8) + ShrBit(x, i, 7)) % 2], 1, 64)

SmallSigma1(x) == SubSeq([i \in 1..64 |-> (RotBit(x, i, 19) + RotBit(x, i, 61) + ShrBit(x, i, 6)) % 2], 1, 64)

Ch(x, y, z) == SubSeq([i \in 1..64 |-> IF x[i] = 1 THEN y[i] ELSE z[i]], 1, 64)

Maj(x, y, z) == SubSeq([i \in 1..64 |-> (x[i] + y[i] + z[i]) \div 2], 1, 64)

\* the message schedule of the block of b at position at: w holds the words
\* 1 .. Len(w), and the words lo .. hi are added
ScheduleStep(w) ==
  Append(w, AddWords(<<SmallSigma1(w[Len(w) - 1]), w[Len(w) - 6],
                       SmallSigma0(w[Len(w) - 14]), w[Len(w) - 15]>>))

RECURSIVE ScheduleRun(_, _, _)
ScheduleRun(w, lo, hi) ==
  IF lo = hi THEN ScheduleStep(w)
  ELSE Pick({ScheduleRun(h, (lo + hi) \div 2 + 1, hi) : h \in {ScheduleRun(w, lo, (lo + hi) \div 2)}})

Schedule(b, at) ==
  Pick({ScheduleRun(w, 17, 80) : w \in {SubSeq([t \in 1..16 |-> WordAt(b, at + 8 * (t - 1))], 1, 16)}})

\* round t of the compression: h is the eight working variables a .. h
RoundStep(h, w, t) ==
  Pick({<<AddWords(<<t1, BigSigma0(h[1]), Maj(h[1], h[2], h[3])>>), h[1], h[2], h[3],
          AddWords(<<h[4], t1>>), h[5], h[6], h[7]>> :
          t1 \in {AddWords(<<h[8], BigSigma1(h[5]), Ch(h[5], h[6], h[7]), WordOf(sha512K[t]), w[t]>>)}})

RECURSIVE RoundRun(_, _, _, _)
RoundRun(h, w, lo, hi) ==
  IF lo = hi THEN RoundStep(h, w, lo)
  ELSE Pick({RoundRun(g, w, (lo + hi) \div 2 + 1, hi) : g \in {RoundRun(h, w, lo, (lo + hi) \div 2)}})

\* the hash value after the block of b at position at
block(h, b, at) ==
  Pick({Pick({SubSeq([i \in 1..8 |-> AddWords(<<h[i], r[i]>>)], 1, 8) : r \in {RoundRun(h, w, 1, 80)}}) :
          w \in {Schedule(b, at)}})

RECURSIVE blocks(_, _, _, _)
blocks(h, b, lo, hi) ==
  IF lo = hi THEN block(h, b, 128 * (lo - 1) + 1)
  ELSE Pick({blocks(g, b, (lo + hi) \div 2 + 1, hi) : g \in {blocks(h, b, lo, (lo + hi) \div 2)}})

\* the message with its padding: the byte 128, zeroes, and the length in bits
\* as 16 bytes, big-endian, to a multiple of 128 bytes
Padded(data) ==
  LET n == Len(data)
      total == 128 * ((n + 17 + 127) \div 128)
  IN SubSeq([i \in 1..total |->
               IF i <= n THEN data[i]
               ELSE IF i = n + 1 THEN 128
               ELSE IF i <= total - 4 THEN 0
               ELSE ((8 * n) \div (256 ^ (total - i))) % 256],
            1, total)

\* sha512.Sum512, after nb blocks from the hash value h
Sum512From(h, b) ==
  Pick({BytesOfWord(r[1]) \o BytesOfWord(r[2]) \o BytesOfWord(r[3]) \o BytesOfWord(r[4])
        \o BytesOfWord(r[5]) \o BytesOfWord(r[6]) \o BytesOfWord(r[7]) \o BytesOfWord(r[8]) :
          r \in {blocks(h, b, 1, Len(b) \div 128)}})

sha512IV == SubSeq([i \in 1..8 |-> WordOf(sha512Init[i])], 1, 8)

Sum512(data) == Pick({Sum512From(sha512IV, b) : b \in {Padded(data)}})

\* ------------------------------------------------------------------------
\* hash2curve.ExpandXMD with SHA-512 (RFC 9380, section 5.3.1)
\* ------------------------------------------------------------------------

errZeroLenDST == "zero-length DST"

errLengthTooLarge == "requested byte length is too high"

\* a []byte argument: nil, or a slice with its bytes; len(nil) is 0
NilSlice == [bytes |-> <<>>, isNil |-> TRUE]

Slice(b) == [bytes |-> b, isNil |-> FALSE]

\* "H2C-OVERSIZE-DST-"
dstLongPrefix == <<72, 50, 67, 45, 79, 86, 69, 82, 83, 73, 90, 69, 45, 68, 83, 84, 45>>

\* the tag the expansion works with: a tag of more than 255 bytes is replaced
\* by the hash of the prefix and the tag
vetDSTXMD(dst) == IF Len(dst) <= 255 THEN dst ELSE Sum512(dstLongPrefix \o dst)

\* the byte-wise exclusive or of two byte strings of one length
xorByte(a, b) ==
  ((a + b) % 2) + 2 * (((a \div 2) + (b \div 2)) % 2) + 4 * (((a \div 4) + (b \div 4)) % 2)
  + 8 * (((a \div 8) + (b \div 8)) % 2) + 16 * (((a \div 16) + (b \div 16)) % 2)
  + 32 * (((a \div 32) + (b \div 32)) % 2) + 64 * (((a \div 64) + (b \div 64)) % 2)
  + 128 * (((a \div 128) + (b \div 128)) % 2)

xorBytes(a, b) == SubSeq([i \in 1..Len(a) |-> xorByte(a[i], b[i])], 1, Len(a))

\* the blocks b_1 .. b_ell of the expansion, after the blocks in done
RECURSIVE xmdBlocks(_, _, _, _)
xmdBlocks(b0, dstPrime, done, ell) ==
  IF Len(done) = ell THEN done
  ELSE Pick({xmdBlocks(b0, dstPrime, Append(done, bi), ell) :
               bi \in {Sum512((IF Len(done) = 0 THEN b0 ELSE xorBytes(b0, done[Len(done)]))
                              \o <<Len(done) + 1>> \o dstPrime)}})

RECURSIVE Flatten(_, _)
Flatten(seqs, n) == IF n = 0 THEN <<>> ELSE Flatten(seqs, n - 1) \o seqs[n]

\* expand_message_xmd under the tag dst, of at most 255 bytes
expandXMD(input, dst, length) ==
  LET ell == (length + 63) \div 64
      dstPrime == dst \o <<Len(dst)>>
  IN Pick({SubSeq(Flatten(bs, ell), 1, length) :
             bs \in {Pick({xmdBlocks(b0, dstPrime, <<>>, ell) :
                              b0 \in {Sum512(Rep(0, 128) \o input
                                             \o <<length \div 256, length % 256, 0>> \o dstPrime)}})}})

\* ExpandXMD that expands under an empty domain separation tag
ExpandXMDAnyDST(input, dst, length) ==
  IF (length + 63) \div 64 > 255 THEN [fault |-> errLengthTooLarge, bytes |-> <<>>]
  ELSE [fault |-> NoFault, bytes |-> expandXMD(input.bytes, vetDSTXMD(dst.bytes), length)]

\* hash2curve.ExpandXMD: a fault for a tag of length 0, else the length bytes
\* of expand_message_xmd
ExpandXMD(input, dst, length) ==
  IF Len(dst.bytes) = 0 THEN [fault |-> errZeroLenDST, bytes |-> <<>>]
  ELSE ExpandXMDAnyDST(input, dst, length)

\* ------------------------------------------------------------------------
\* The ristretto255 group: the map from 64 uniform bytes to an element
\* (gtank/ristretto255, RFC 9496). An element made by the map is held as the
\* 32 bytes Encode gives for it.
\* ------------------------------------------------------------------------

\* the constants of the ristretto255 map (RFC 9496, section 4.1)
oneMinusDSq ==
  <<118, 193, 95, 148, 193, 9, 124, 226, 15, 53, 94, 205, 56, 161, 129, 44,
    228, 223, 112, 190, 221, 171, 148, 153, 215, 224, 179, 178, 168, 114, 144, 2>>

dMinusOneSq ==
  <<32, 77, 237, 68, 170, 90, 173, 49, 153, 25, 30, 176, 44, 74, 158, 210,
    235, 78, 155, 82, 47, 211, 220, 76, 65, 34, 108, 246, 122, 179, 104, 89>>

sqrtADMinusOne ==
  <<27, 46, 123, 73, 160, 246, 151, 126, 189, 84, 120, 27, 12, 142, 157, 175,
    253, 209, 245, 49, 201, 252, 60, 15, 172, 72, 131, 43, 191, 49, 105, 55>>

invSqrtAMinusD ==
  <<234, 64, 93, 128, 170, 253, 200, 153, 190, 114, 65, 90, 23, 22, 47, 157,
    64, 216, 1, 254, 145, 123, 194, 22, 162, 252, 175, 207, 5, 137, 108, 120>>

\* the end of MAP: the point for r, v, s and c
MapEnd(r, v, s, c) ==
  Pick({Pick({<<fMul(w[1], w[4]), fMul(w[3], w[2]), fMul(w[2], w[4]), fMul(w[1], w[3])>> :
                w \in {<<fMul(fAdd(s, s), v),
                         fMul(fSub(fMul(fMul(c, fSub(r, scOne)), dMinusOneSq), v), sqrtADMinusOne),
                         fSub(scOne, ss), fAdd(scOne, ss)>>}}) :
          ss \in {fMul(s, s)}})

\* MAP of RFC 9496, section 4.3.4: the point of the field element t
MapToPoint(t) ==
  Pick({Pick({Pick({IF sq[2] THEN MapEnd(r, v, sq[1], fNeg(scOne))
                    ELSE MapEnd(r, v, fNeg(Absolute(fMul(sq[1], t))), r) :
                      sq \in {SqrtRatio(fMul(fAdd(r, scOne), oneMinusDSq), v)}}) :
                v \in {fMul(fSub(fNeg(scOne), fMul(r, fieldD)), fAdd(r, fieldD))}}) :
          r \in {fMul(sqrtM1, fMul(t, t))}})

\* the end of Encode: the bytes for the point p, the inverse square root and
\* the two denominators
ristrettoEncodeEnd(p, den1, den2) ==
  Pick({Pick({Pick({Absolute(fMul(xy[3], fSub(p[3], y))) :
                      y \in {IF IsNegative(fMul(xy[1], zInv)) = 1 THEN fNeg(xy[2]) ELSE xy[2]}}) :
                xy \in {IF IsNegative(fMul(p[4], zInv)) = 1
                        THEN <<fMul(p[2], sqrtM1), fMul(p[1], sqrtM1), fMul(den1, invSqrtAMinusD)>>
                        ELSE <<p[1], p[2], den2>>}}) :
          zInv \in {fMul(fMul(den1, den2), p[4])}})

\* Element.Encode of ristretto255 (RFC 9496, section 4.3.2) for the point p
ristrettoEncode(p) ==
  Pick({Pick({Pick({ristrettoEncodeEnd(p, fMul(inv[1], u1), fMul(inv[1], u2)) :
                      inv \in {SqrtRatio(scOne, fMul(u1, fMul(u2, u2)))}}) :
                u2 \in {fMul(p[1], p[2])}}) :
          u1 \in {fMul(fAdd(p[3], p[2]), fSub(p[3], p[2]))}})

\* Element.FromUniformBytes: the sum of the points of the two halves of b
ristrettoFromUniformBytes(b) ==
  Pick({ristrettoEncode(PointAdd(pq[1], pq[2])) :
          pq \in {<<MapToPoint(YOf(SubSeq(b, 1, 32))), MapToPoint(YOf(SubSeq(b, 33, 64)))>>}})

\* outcome of a call that returns a new object, or ends in a fault before it returns
ReturnsNew(v) == [val |-> v, fault |-> NoFault, returned |-> TRUE]

FaultsBeforeReturn(f) == [val |-> <<>>, fault |-> f, returned |-> FALSE]

\* Group.HashToScalar: the scalar of the expanded bytes
HashToScalar(input, dst) ==
  Pick({IF uniform.fault # NoFault THEN FaultsBeforeReturn(uniform.fault)
        ELSE ReturnsNew(FromUniformBytes(uniform.bytes, "ristretto255")) :
          uniform \in {ExpandXMD(input, dst, inputLength)}})

\* Group.HashToGroup: the element the map gives for the expanded bytes
HashToGroup(input, dst) ==
  Pick({IF uniform.fault # NoFault THEN FaultsBeforeReturn(uniform.fault)
        ELSE ReturnsNew(ristrettoFromUniformBytes(uniform.bytes)) :
          uniform \in {ExpandXMD(input, dst, inputLength)}})

\* ------------------------------------------------------------------------
\* State
\* ------------------------------------------------------------------------

VARIABLES
  scalars,   \* the scalar objects: id -> [grp, val]
  elements,  \* the element objects: id -> [grp, val]
  last,      \* the last completed call and its outcome
  ops,       \* number of completed calls
  pow,       \* the Pow call in progress (its locals), if any
  rnd,       \* the Random call in progress, if any
  wire,      \* the bytes given to the last call and the bytes it returned
  refs,      \* the scalar object each of the handles s and c points to, 0 if none
  mem,       \* the byte arrays: the package's orderBytes and the arrays of the slices the caller holds
  erefs      \* the element object each of the caller's element wrappers points to

vars == <<scalars, elements, last, ops, pow, rnd, wire, refs, mem, erefs>>

\* operands of a call: 0 is nil, 1 the receiver itself, 2 the other object
ArgIds == {0, 1, 2}

Arg(a) == IF a = 0 THEN Nil ELSE scalars[a]

ElementArg(a) == IF a = 0 THEN NilElement ELSE elements[a]

NoCall == [op |-> "none", arg |-> 0, pre |-> <<>>, out |-> Returns(<<>>), retried |-> FALSE]

NoPow == [i |-> 0, j |-> 0, bytes |-> <<>>, msbyte |-> 0, pc |-> "idle", s1 |-> <<>>, s2 |-> <<>>,
          arg |-> 0]

NoRandom == [pc |-> "idle", retried |-> FALSE]

NoWire == [in |-> <<>>, out |-> <<>>]

\* the handles of the two scalar objects a behaviour starts with
NewRefs == <<1, 2>>

\* the memory at start: the array of orderBytes, and no slice held by the caller
NewMem == [arrays |-> <<orderBytes>>, held |-> <<>>]

\* the two element wrappers a behaviour starts with, each with its own object
NewElementRefs == <<1, 2>>

Idle == pow.pc = "idle" /\ rnd.pc = "idle"

MinusOneOf(g) == IF g = "secp256k1" THEN secpMinusOne ELSE scMinusOne

Num(bytes) == Pad(bytes, canonicalEncodingLength)

\* values the scalars hold when a behaviour starts: 0, 1, 256, 2^64, order-1
ScalarValues(g) == {scZero, scOne, Num(<<0, 1>>), Num(<<0, 0, 0, 0, 0, 0, 0, 0, 1>>), MinusOneOf(g)}

ScalarObjects == UNION {{[grp |-> g, val |-> v] : v \in ScalarValues(g)} : g \in Groups}

ScalarsOver == {<<a, b>> : a \in ScalarObjects, b \in ScalarObjects}

\* the pairs <<base, exponent>> a behaviour of Pow starts from
PowPairs(g) ==
  ({scZero, scOne, Num(<<2>>), Num(<<3>>)}
     \X {scZero, scOne, Num(<<2>>), Num(<<3>>), Num(<<165>>), Num(<<0, 1>>), Num(<<1, 0, 1>>)})
  \cup {<<Num(<<2>>), Num(<<0, 0, 0, 0, 0, 0, 0, 0, 1>>)>>,
        <<Num(<<2>>), MinusOneOf(g)>>,
        <<Num(<<0, 0, 0, 0, 0, 0, 0, 0, 1>>), Num(<<2>>)>>,
        <<Num(<<0, 0, 0, 0, 0, 0, 0, 0, 1>>), Num(<<3>>)>>}

PowScalars ==
  UNION {{<<[grp |-> g1, val |-> p[1]], [grp |-> g2, val |-> p[2]]>> : p \in PowPairs(g2)} :
           <<g1, g2>> \in Groups \X Groups}

\* what the entropy source may return: 0, the order, 1, 2^256, 2^512 - 1
EntropyValues ==
  {Pad(<<>>, inputLength), Pad(orderBytes, inputLength), Pad(<<1>>, inputLength),
   Pad(scZero \o <<1>>, inputLength), SubSeq([i \in 1..inputLength |-> 255], 1, inputLength)}

\* elements k.B a behaviour starts from: the identity, the base, 2.B
ElementValues == {scZero, scOne, Num(<<2>>)}

ElementsOver ==
  {<<[grp |-> "edwards25519", val |-> v1, tor |-> 0], [grp |-> g2, val |-> v2, tor |-> 0]>> :
     <<v1, g2, v2>> \in ElementValues \X Groups \X ElementValues}

NewScalars == <<[grp |-> "ristretto255", val |-> scZero], [grp |-> "ristretto255", val |-> scZero]>>

NewElements ==
  <<[grp |-> "edwards25519", val |-> scZero, tor |-> 0], [grp |-> "edwards25519", val |-> scZero, tor |-> 0]>>

InitRest == last = NoCall /\ ops = 0 /\ pow = NoPow /\ rnd = NoRandom /\ wire = NoWire /\ refs = NewRefs
  /\ mem = NewMem /\ erefs = NewElementRefs

Init == scalars \in ScalarsOver /\ elements = NewElements /\ InitRest

InitPow == scalars \in PowScalars /\ elements = NewElements /\ InitRest

InitElement == scalars = NewScalars /\ elements \in ElementsOver /\ InitRest

\* the call op(arg a) on scalar 1 completes with outcome out
Complete(op, a, out, retried) ==
  /\ scalars' = [scalars EXCEPT ![1].val = out.val]
  /\ last' = [op |-> op, arg |-> a, pre |-> scalars, out |-> out, retried |-> retried]
  /\ ops' = ops + 1
  /\ UNCHANGED <<elements, wire, refs, mem, erefs>>

\* a call that runs in one step
Call(op, a, result) ==
  /\ Idle
  /\ ops < MaxOps
  /\ \E out \in {result} : Complete(op, a, out, FALSE)
  /\ UNCHANGED <<pow, rnd>>

CallZero == Call("Zero", 0, ScalarZero(scalars[1]))

CallOne == Call("One", 0, ScalarOne(scalars[1]))

CallMinusOne == Call("MinusOne", 0, ScalarMinusOne(scalars[1]))

CallAdd(a) == Call("Add", a, ScalarAdd(scalars[1], Arg(a)))

CallSubtract(a) == Call("Subtract", a, ScalarSubtract(scalars[1], Arg(a)))

CallMultiply(a) == Call("Multiply", a, ScalarMultiply(scalars[1], Arg(a)))

CallEqual(a) == Call("Equal", a, ScalarEqual(scalars[1], Arg(a)))

CallLessOrEqual(a) == Call("LessOrEqual", a, ScalarLessOrEqual(scalars[1], Arg(a)))

CallSet(a) == Call("Set", a, ScalarSet(scalars[1], Arg(a)))

CallUInt64 == Call("UInt64", 0, ScalarUInt64(scalars[1]))

\* what the secp256k1 library may draw: 1, 256, order - 1
secpDraws == {scOne, Num(<<0, 1>>), secpMinusOne}

\* Random on a ristretto255 or edwards25519 scalar enters its loop; on a
\* secp256k1 scalar the library draws the value and the call returns
CallRandom ==
  /\ Idle
  /\ ops < MaxOps
  /\ IF scalars[1].grp \in LittleEndianGroups
     THEN /\ rnd' = [pc |-> "loop", retried |-> FALSE]
          /\ UNCHANGED <<scalars, elements, last, ops, wire, refs, mem, erefs>>
     ELSE /\ \E v \in secpDraws : Complete("Random", 0, secpRandom(scalars[1], v), FALSE)
          /\ UNCHANGED rnd
  /\ UNCHANGED pow

\* Invert, once in a behaviour and as its first call
CallInvert == ops = 0 /\ Call("Invert", 0, ScalarInvert(scalars[1]))

\* one pass of the loop of Random, the entropy source returning random
RandomDraw(random) ==
  /\ rnd.pc = "loop"
  /\ \E r \in {Random(scalars[1], random)} :
       IF r.done
       THEN Complete("Random", 0, Returns(r.val), rnd.retried) /\ rnd' = NoRandom
       ELSE /\ scalars' = [scalars EXCEPT ![1].val = r.val]
            /\ rnd' = [rnd EXCEPT !.retried = TRUE]
            /\ UNCHANGED <<elements, last, ops, wire, refs, mem, erefs>>
  /\ UNCHANGED pow

Next ==
  \/ CallZero
  \/ CallOne
  \/ CallMinusOne
  \/ \E a \in ArgIds : CallAdd(a)
  \/ \E a \in ArgIds : CallSubtract(a)
  \/ \E a \in ArgIds : CallMultiply(a)
  \/ \E a \in ArgIds : CallEqual(a)
  \/ \E a \in ArgIds : CallLessOrEqual(a)
  \/ \E a \in ArgIds : CallSet(a)
  \/ CallUInt64
  \/ CallRandom
  \/ \E random \in EntropyValues : RandomDraw(random)

Spec == Init /\ [][Next]_vars

\* ------------------------------------------------------------------------
\* Pow, step by step
\* ------------------------------------------------------------------------

\* Pow with a nil operand, on a secp256k1 receiver, or with an operand the
\* assertion rejects, ends at once; otherwise Pow reaches its first loop
CallPow(a) ==
  /\ Idle
  /\ ops < MaxPowCalls
  /\ UNCHANGED rnd
  /\ IF Arg(a) = Nil
     THEN Complete("Pow", a, ScalarOne(scalars[1]), FALSE) /\ UNCHANGED pow
     ELSE IF scalars[1].grp = "secp256k1"
     THEN (\E out \in {secpPow(scalars[1], Arg(a))} : Complete("Pow", a, out, FALSE)) /\ UNCHANGED pow
     ELSE IF ~assert(scalars[1], Arg(a))
     THEN Complete("Pow", a, Panics(scalars[1].val, ErrCastScalar), FALSE) /\ UNCHANGED pow
     ELSE /\ \E b \in {PowBegin(scalars[1], Arg(a))} :
               pow' = [i |-> b.i, j |-> b.j, bytes |-> b.bytes, msbyte |-> b.msbyte, pc |-> b.pc,
                       s1 |-> b.s1, s2 |-> b.s2, arg |-> a]
          /\ UNCHANGED <<scalars, elements, last, ops, wire, refs, mem, erefs>>

\* the loop over the bits of the most significant byte
PowFirstRound ==
  /\ pow.pc = "first"
  /\ IF pow.j >= 0
     THEN \E r \in {PowRound(pow.s1, pow.s2, pow.bytes[pow.msbyte + 1], pow.j, scalars[1].grp)} :
            pow' = [pow EXCEPT !.s1 = r[1], !.s2 = r[2], !.j = pow.j - 1]
     ELSE pow' = [pow EXCEPT !.pc = "rest", !.i = pow.msbyte - 1, !.j = 7]
  /\ UNCHANGED <<scalars, elements, last, ops, rnd, wire, refs, mem, erefs>>

\* the loops over the bits of the bytes below it
PowRounds ==
  /\ pow.pc = "rest"
  /\ IF pow.i >= 0
     THEN \E r \in {PowRound(pow.s1, pow.s2, pow.bytes[pow.i + 1], pow.j, scalars[1].grp)} :
            pow' = [pow EXCEPT !.s1 = r[1], !.s2 = r[2],
                               !.i = IF pow.j = 0 THEN pow.i - 1 ELSE pow.i,
                               !.j = IF pow.j = 0 THEN 7 ELSE pow.j - 1]
     ELSE pow' = [pow EXCEPT !.pc = "end"]
  /\ UNCHANGED <<scalars, elements, last, ops, rnd, wire, refs, mem, erefs>>

PowReturn ==
  /\ pow.pc = "end"
  /\ Complete("Pow", pow.arg, PowEnd(scalars[1], Arg(pow.arg), pow.s1), FALSE)
  /\ pow' = NoPow
  /\ UNCHANGED rnd

NextPow ==
  \/ \E a \in ArgIds : CallPow(a)
  \/ PowFirstRound
  \/ PowRounds
  \/ PowReturn

SpecPow == InitPow /\ [][NextPow]_vars

\* ------------------------------------------------------------------------
\* Calls on elements
\* ------------------------------------------------------------------------

ElementCall(op, a, result) ==
  /\ ops < MaxOps
  /\ \E out \in {result} :
       /\ elements' = [elements EXCEPT ![1].val = out.val, ![1].tor = out.tor]
       /\ last' = [op |-> op, arg |-> a, pre |-> elements, out |-> out, retried |-> FALSE]
  /\ ops' = ops + 1
  /\ UNCHANGED <<scalars, pow, rnd, wire, refs, mem, erefs>>

CallBase == ElementCall("Element.Base", 0, Base(elements[1]))

CallIdentity == ElementCall("Element.Identity", 0, Identity(elements[1]))

CallElementAdd(a) == ElementCall("Element.Add", a, ElementAdd(elements[1], ElementArg(a)))

CallElementSubtract(a) == ElementCall("Element.Subtract", a, ElementSubtract(elements[1], ElementArg(a)))

CallElementDouble == ElementCall("Element.Double", 0, ElementDouble(elements[1]))

CallElementNegate == ElementCall("Element.Negate", 0, ElementNegate(elements[1]))

CallElementSet(a) == ElementCall("Element.Set", a, ElementSet(elements[1], ElementArg(a)))

NextElement ==
  \/ CallBase
  \/ CallIdentity
  \/ \E a \in ArgIds : CallElementAdd(a)
  \/ \E a \in ArgIds : CallElementSubtract(a)
  \/ CallElementDouble
  \/ CallElementNegate
  \/ \E a \in ArgIds : CallElementSet(a)

SpecElement == InitElement /\ [][NextElement]_vars

\* ------------------------------------------------------------------------
\* Scalars to and from bytes and uint64
\* ------------------------------------------------------------------------

\* uint64 arguments, 8 bytes least significant first: 0, 1, 255, 256, 2^63,
\* 2^64 - 1 and 0x0807060504030201
UInt64Values ==
  {Pad(<<>>, 8), Pad(<<1>>, 8), Pad(<<255>>, 8), Pad(<<0, 1>>, 8), <<0, 0, 0, 0, 0, 0, 0, 128>>,
   <<255, 255, 255, 255, 255, 255, 255, 255>>, <<1, 2, 3, 4, 5, 6, 7, 8>>}

\* the bytes a backend of group g writes for the magnitude v
EncodingOf(g, v) == IF g = "secp256k1" THEN Reverse(v) ELSE v

\* the magnitude a backend of group g reads from canonicalEncodingLength bytes
MagnitudeOf(g, b) == IF g = "secp256k1" THEN Reverse(b) ELSE b

\* byte counts of the inputs of Decode other than canonicalEncodingLength
WrongLengths == {0, 1, 2, 31, 33, 64}

\* inputs of Decode for group g: of each wrong length, the encodings of 0, 256
\* and order-1, and those of the order, the order plus one and 2^256 - 1
DecodeInputs(g) ==
  {SubSeq([i \in 1..64 |-> 7], 1, n) : n \in WrongLengths}
  \cup {EncodingOf(g, v) : v \in {scZero, Num(<<0, 1>>), MinusOneOf(g)}}
  \cup {EncodingOf(g, v) : v \in {Order(g), [Order(g) EXCEPT ![1] = @ + 1],
                                   SubSeq([i \in 1..canonicalEncodingLength |-> 255], 1, canonicalEncodingLength)}}

\* one scalar of any group and value, and a new scalar of its group
CodecScalars == {<<o, [grp |-> o.grp, val |-> scZero]>> : o \in ScalarObjects}

InitCodec == scalars \in CodecScalars /\ elements = NewElements /\ InitRest

\* a call on scalar 1 that takes or returns bytes completes with outcome result
CodecCall(op, result, in) ==
  /\ ops < MaxOps
  /\ \E out \in {result} :
       /\ scalars' = [scalars EXCEPT ![1].val = out.val]
       /\ last' = [op |-> op, arg |-> 0, pre |-> scalars, out |-> out, retried |-> FALSE]
       /\ wire' = [in |-> in, out |-> IF "bytes" \in DOMAIN out THEN out.bytes ELSE <<>>]
  /\ ops' = ops + 1
  /\ UNCHANGED <<elements, pow, rnd, refs, mem, erefs>>

CallSetUInt64(i) == CodecCall("SetUInt64", ScalarSetUInt64(scalars[1], i), i)

CallUInt64After == CodecCall("UInt64", ScalarUInt64(scalars[1]), <<>>)

CallEncode == CodecCall("Encode", ScalarEncode(scalars[1]), <<>>)

CallDecode(data) ==
  \E empty \in secpEmptyErrors : CodecCall("Decode", ScalarDecode(scalars[1], data, empty), data)

CallUnmarshalBinary(data) ==
  \E empty \in secpEmptyErrors :
    CodecCall("UnmarshalBinary", ScalarUnmarshalBinary(scalars[1], data, empty), data)

CallHex == CodecCall("Hex", ScalarHex(scalars[1]), <<>>)

CallMarshalJSON == CodecCall("MarshalJSON", ScalarMarshalJSON(scalars[1]), <<>>)

CallDecodeHex(h) ==
  \E empty \in secpEmptyErrors : CodecCall("DecodeHex", ScalarDecodeHex(scalars[1], h, empty), h)

CallUnmarshalJSON(data) ==
  \E empty \in secpEmptyErrors :
    CodecCall("UnmarshalJSON", ScalarUnmarshalJSON(scalars[1], data, empty), data)

\* strings given to DecodeHex and UnmarshalJSON: the empty string, "abc", "0g",
\* "zz1", the hexadecimal forms of 7, of 256 and of the order, in lower and in
\* upper case, and what the last call returned
HexInputs(g) ==
  {<<>>, <<97, 98, 99>>, <<48, 103>>, <<122, 122, 49>>}
  \cup {EncodeToString(EncodingOf(g, v)) : v \in {Num(<<7>>), Num(<<0, 1>>), Order(g)}}
  \cup {[i \in 1..(2 * canonicalEncodingLength) |-> IF i % 2 = 0 THEN 65 ELSE 48]}

NextCodec ==
  \/ \E i \in UInt64Values : CallSetUInt64(i)
  \/ CallUInt64After
  \/ CallEncode
  \/ \E data \in DecodeInputs(scalars[1].grp) \cup {wire.out} : CallDecode(data)
  \/ \E data \in DecodeInputs(scalars[1].grp) \cup {wire.out} : CallUnmarshalBinary(data)
  \/ CallHex
  \/ CallMarshalJSON
  \/ \E h \in HexInputs(scalars[1].grp) \cup {wire.out} : CallDecodeHex(h)
  \/ \E h \in HexInputs(scalars[1].grp) : CallUnmarshalJSON(Quoted(h))
  \/ last.op = "MarshalJSON" /\ CallUnmarshalJSON(wire.out)

SpecCodec == InitCodec /\ [][NextCodec]_vars
\* ------------------------------------------------------------------------
\* Elements to and from bytes, and times a scalar
\* ------------------------------------------------------------------------

\* inputs of Decode on an element: the empty input, 31 and 33 bytes, the
\* encodings of the points of CurvePoints, and encodings Point.Bytes never
\* gives: the identity and the point of order 2 with the sign bit set, and
\* y = 0 and y = 1 plus the prime
ElementDecodeInputs ==
  {<<>>, Rep(1, 31), Rep(1, 33)}
  \cup {r.bytes : r \in CurvePoints}
  \cup {WithSign(scOne), WithSign(<<236>> \o Rep(255, 30) \o <<127>>),
        fieldPrime, WithSign(fieldPrime), [fieldPrime EXCEPT ![1] = @ + 1]}

encoding3B ==
  <<212, 180, 245, 120, 72, 104, 195, 2, 4, 3, 36, 103, 23, 236, 22, 159,
    247, 158, 38, 96, 142, 161, 38, 161, 171, 105, 238, 119, 209, 177, 103, 18>>

\* inputs of Decode whose y is the y of no point of CurvePoints: the encoding
\* of 3.B, 32 bytes 255 (y = 18 with the sign bit set and the bit above y set),
\* and the encodings of y = 2 and of y = 2 plus the prime, the y of no point of
\* the curve
OtherDecodeInputs ==
  {encoding3B, Rep(255, canonicalEncodingLength),
   Pad(<<2>>, canonicalEncodingLength), [fieldPrime EXCEPT ![1] = @ + 2]}

\* the inputs of OtherDecodeInputs are decoded as the first call of a
\* behaviour, by an element that holds the identity or B
DecodesOthers ==
  /\ ops = 0
  /\ scalars = <<[grp |-> "edwards25519", val |-> scOne], [grp |-> "edwards25519", val |-> scZero]>>
  /\ elements[1].tor = 0 /\ elements[1].val \in {scZero, scOne}

\* strings given to DecodeHex and, in quotes, to UnmarshalJSON: "0g", and the
\* hexadecimal forms of the encodings of the identity and of B
ElementHexInputs == {<<48, 103>>, EncodeToString(scOne), EncodeToString(encodingB)}

\* an edwards25519 element holding a point of CurvePoints and a new one; the
\* edwards25519 scalar 0 or 1 and the scalar 0 of any group
ElementCodecElements ==
  {<<[grp |-> "edwards25519", val |-> r.k, tor |-> r.t], NewElements[2]>> : r \in CurvePoints}

ElementCodecScalars ==
  {<<[grp |-> "edwards25519", val |-> v], [grp |-> g, val |-> scZero]>> :
     <<v, g>> \in {scZero, scOne} \X Groups}

InitElementCodec ==
  scalars \in ElementCodecScalars /\ elements \in ElementCodecElements /\ InitRest

\* a call on element 1 that takes or returns bytes completes with outcome result
ElementCodecCall(op, a, result, in) ==
  /\ ops < MaxOps
  /\ \E out \in {result} :
       /\ elements' = [elements EXCEPT ![1].val = out.val, ![1].tor = out.tor]
       /\ last' = [op |-> op, arg |-> a, pre |-> elements, out |-> out, retried |-> FALSE]
       /\ wire' = [in |-> in, out |-> IF "bytes" \in DOMAIN out THEN out.bytes ELSE <<>>]
  /\ ops' = ops + 1
  /\ UNCHANGED <<scalars, pow, rnd, refs, mem, erefs>>

CallElementDecode(data) ==
  ElementCodecCall("Element.Decode", 0, ElementDecode(elements[1], data), data)

CallElementEncode == ElementCodecCall("Element.Encode", 0, ElementEncode(elements[1]), <<>>)

CallElementMarshalJSON ==
  ElementCodecCall("Element.MarshalJSON", 0, ElementMarshalJSON(elements[1]), <<>>)

CallElementDecodeHex(h) ==
  ElementCodecCall("Element.DecodeHex", 0, ElementDecodeHex(elements[1], h), h)

CallElementUnmarshalJSON(data) ==
  ElementCodecCall("Element.UnmarshalJSON", 0, ElementUnmarshalJSON(elements[1], data), data)

CallElementUnmarshalBinary(data) ==
  ElementCodecCall("Element.UnmarshalBinary", 0, ElementUnmarshalBinary(elements[1], data), data)

CallElementMultiply(a) ==
  ElementCodecCall("Element.Multiply", a, ElementMultiply(elements[1], Arg(a)), <<>>)

NextElementCodec ==
  \/ \E data \in ElementDecodeInputs \cup {wire.out} : CallElementDecode(data)
  \/ DecodesOthers /\ \E data \in OtherDecodeInputs : CallElementDecode(data)
  \/ CallElementEncode
  \/ CallElementMarshalJSON
  \/ \E h \in ElementHexInputs : CallElementDecodeHex(h)
  \/ \E h \in ElementHexInputs : CallElementUnmarshalJSON(Quoted(h))
  \/ last.op = "Element.MarshalJSON" /\ CallElementUnmarshalJSON(wire.out)
  \/ \E data \in {<<>>, Rep(1, 31), scOne, encodingT} : CallElementUnmarshalBinary(data)
  \/ \E a \in ArgIds : CallElementMultiply(a)
  \/ CallBase
  \/ CallIdentity

SpecElementCodec == InitElementCodec /\ [][NextElementCodec]_vars

\* ------------------------------------------------------------------------
\* Copies of scalars
\* ------------------------------------------------------------------------

\* the two variables of a program that hold scalars, each bound to an object
Handles == DOMAIN refs

Other(h) == CHOOSE j \in Handles : j # h

\* the scalar object the variable h is bound to
View(h) == scalars[refs[h]]

\* the operand a call names: nil or the object of a variable
Held(k) == IF k = 0 THEN Nil ELSE View(k)

\* two scalars of one group, or any scalar and the zero of any group
CopyScalars == {p \in ScalarsOver : p[1].grp = p[2].grp \/ p[2].val = scZero}

InitCopy == scalars \in CopyScalars /\ elements = NewElements /\ InitRest

\* Copy that returns the receiver's own object
CopyShares(h) == refs[h]

\* the object Copy on the variable h allocates: one that h is not bound to
CopyAllocates(h) == CHOOSE c \in DOMAIN scalars : c # refs[h]

\* the other variable is bound to what Copy on the variable h returns
CallCopy(h) ==
  /\ ops < MaxOps
  /\ \E c \in {CopyAllocates(h)} :
       /\ scalars' = [scalars EXCEPT ![c] = ScalarCopy(View(h))]
       /\ refs' = [refs EXCEPT ![Other(h)] = c]
  /\ last' = [prev |-> last.op, op |-> "Copy", arg |-> 0, pre |-> scalars,
              out |-> Returns(View(h).val), retried |-> FALSE, on |-> h]
  /\ ops' = ops + 1
  /\ UNCHANGED <<elements, pow, rnd, wire, mem, erefs>>

\* a call on the object of the variable h, with the operand k, completes with outcome result
HandleCall(op, h, k, result) ==
  /\ ops < MaxOps
  /\ \E out \in {result} :
       /\ scalars' = [scalars EXCEPT ![refs[h]].val = out.val]
       /\ last' = [prev |-> last.op, op |-> op, arg |-> k, pre |-> scalars, out |-> out,
                   retried |-> FALSE, on |-> h]
  /\ ops' = ops + 1
  /\ UNCHANGED <<elements, pow, rnd, wire, refs, mem, erefs>>

SetOn(h, k) == HandleCall("Set", h, k, ScalarSet(View(h), Held(k)))

AddOn(h, k) == HandleCall("Add", h, k, ScalarAdd(View(h), Held(k)))

MultiplyOn(h, k) == HandleCall("Multiply", h, k, ScalarMultiply(View(h), Held(k)))

ZeroOn(h) == HandleCall("Zero", h, 0, ScalarZero(View(h)))

NextCopy ==
  \/ \E h \in Handles : CallCopy(h)
  \/ \E h \in Handles, k \in {0} \cup Handles : SetOn(h, k)
  \/ \E h \in Handles, k \in {0} \cup Handles : AddOn(h, k)
  \/ \E h \in Handles, k \in {0} \cup Handles : MultiplyOn(h, k)
  \/ \E h \in Handles : ZeroOn(h)

SpecCopy == InitCopy /\ [][NextCopy]_vars

\* ------------------------------------------------------------------------
\* Group identifiers
\* ------------------------------------------------------------------------

\* the largest identifier a behaviour asks about
MaxIdentifier == 63

Identifiers == 0 .. MaxIdentifier

ErrInvalidGroup == "ErrInvalidGroup"

\* the identifier of Decaf448, which is not supported
decaf448Shake256 == 2

\* the highest identifier assigned to a group
Secp256k1Sha256 == 7

\* Ciphersuite: the hash-to-curve name of each group of the table (the name of
\* secp256k1 is the one of RFC 9380; no source gives it)
Ciphersuite ==
  [g \in (1 .. Secp256k1Sha256) \ {decaf448Shake256} |->
     <<"ristretto255_XMD:SHA-512_R255MAP_RO_", "", "P256_XMD:SHA-256_SSWU_RO_",
       "P384_XMD:SHA-384_SSWU_RO_", "P521_XMD:SHA-512_SSWU_RO_",
       "edwards25519_XMD:SHA-512_ELL2_RO_", "secp256k1_XMD:SHA-256_SSWU_RO_">>[g]]

\* Available that leaves no gap for Decaf448
AvailableUpToHighest(g) == 0 < g /\ g <= Secp256k1Sha256

\* Available: whether the identifier g is one of the table's supported groups
Available(g) == 0 < g /\ g <= Secp256k1Sha256 /\ g # decaf448Shake256

\* String: the name of the group g, a fault for an identifier that is not available
String(g) ==
  IF ~Available(g)
  THEN [val |-> <<>>, self |-> FALSE, bool |-> "none", err |-> NoError, fault |-> ErrInvalidGroup,
        name |-> ""]
  ELSE [val |-> <<>>, self |-> FALSE, bool |-> "none", err |-> NoError, fault |-> NoFault,
        name |-> Ciphersuite[g]]

\* a number in decimal digits
RECURSIVE Decimal(_)
Decimal(n) ==
  IF n < 10 THEN <<"0", "1", "2", "3", "4", "5", "6", "7", "8", "9">>[n + 1]
  ELSE Decimal(n \div 10) \o Decimal(n % 10)

\* the verb %02d: decimal digits, with a 0 in front of a single digit
ZeroPadded(n) == IF n < 10 THEN "0" \o Decimal(n) ELSE Decimal(n)

\* MakeDST that writes the version and the identifier without padding
MakeDSTNoPadding(g, app, version) ==
  IF ~Available(g)
  THEN [val |-> <<>>, self |-> FALSE, bool |-> "none", err |-> NoError, fault |-> ErrInvalidGroup,
        name |-> ""]
  ELSE [val |-> <<>>, self |-> FALSE, bool |-> "none", err |-> NoError, fault |-> NoFault,
        name |-> app \o "-V" \o Decimal(version) \o "-CS" \o Decimal(g) \o "-" \o Ciphersuite[g]]

\* MakeDST: "%s-V%02d-CS%02d-%s" of app, version, the identifier and the
\* ciphersuite; a fault for an identifier that is not available
MakeDST(g, app, version) ==
  IF ~Available(g)
  THEN [val |-> <<>>, self |-> FALSE, bool |-> "none", err |-> NoError, fault |-> ErrInvalidGroup,
        name |-> ""]
  ELSE [val |-> <<>>, self |-> FALSE, bool |-> "none", err |-> NoError, fault |-> NoFault,
        name |-> app \o "-V" \o ZeroPadded(version) \o "-CS" \o ZeroPadded(g) \o "-" \o Ciphersuite[g]]

\* application tags and versions (a uint8) of the calls of MakeDST
Apps == {"", "app", "a-V1"}

Versions == {0, 1, 9, 10, 42, 99, 100, 255}

\* a call on the identifier g completes with outcome result
GroupCall(op, g, result) ==
  /\ ops < MaxOps
  /\ last' = [op |-> op, arg |-> g, pre |-> <<>>, out |-> result, retried |-> FALSE]
  /\ ops' = ops + 1
  /\ UNCHANGED <<scalars, elements, pow, rnd, wire, refs, mem, erefs>>

CallAvailable(g) == GroupCall("Group.Available", g, ReturnsBool(<<>>, Available(g)))

CallString(g) == GroupCall("Group.String", g, String(g))

CallMakeDST(g, app, version) ==
  /\ ops < MaxOps
  /\ last' = [op |-> "Group.MakeDST", arg |-> g, pre |-> <<>>, out |-> MakeDST(g, app, version),
              retried |-> FALSE]
  /\ wire' = [in |-> <<app, version>>, out |-> <<>>]
  /\ ops' = ops + 1
  /\ UNCHANGED <<scalars, elements, pow, rnd, refs, mem, erefs>>

InitGroup == scalars = NewScalars /\ elements = NewElements /\ InitRest

NextGroup ==
  \/ \E g \in Identifiers : CallAvailable(g)
  \/ \E g \in Identifiers : CallString(g)
  \/ \E g \in Identifiers \cap (0 .. Secp256k1Sha256 + 2), app \in Apps, version \in Versions :
       CallMakeDST(g, app, version)

SpecGroup == InitGroup /\ [][NextGroup]_vars

\* ------------------------------------------------------------------------
\* Hashing to scalars and elements (ristretto255)
\* ------------------------------------------------------------------------

\* inputs of the calls under a tag of length 0: nil and "input"
HashInputs == {NilSlice, Slice(<<105, 110, 112, 117, 116>>)}

\* the tags of length 0
EmptyDSTs == {NilSlice, Slice(<<>>)}

\* inputs and tags of the calls that hash, each the first call of a behaviour:
\* the bytes 1, 2 under "dst", "input" under 17 bytes 255, nil under one byte 0
HashedPairs ==
  {<<Slice(<<1, 2>>), Slice(<<100, 115, 116>>)>>,
   <<Slice(<<105, 110, 112, 117, 116>>), Slice(Rep(255, 17))>>,
   <<NilSlice, Slice(<<0>>)>>}

\* a call on the group completes; the arguments are kept in wire, and the call
\* before it and its arguments in last.prev
HashCall(op, input, dst, result) ==
  /\ ops < MaxOps
  /\ \E out \in {result} :
       /\ last' = [prev |-> <<last.op, wire.in>>, op |-> op, arg |-> 0, pre |-> scalars, out |-> out,
                   retried |-> FALSE]
       /\ wire' = [in |-> <<input, dst>>, out |-> out.val]
  /\ ops' = ops + 1
  /\ UNCHANGED <<scalars, elements, pow, rnd, refs, mem, erefs>>

CallHashToScalar(input, dst) == HashCall("Group.HashToScalar", input, dst, HashToScalar(input, dst))

CallHashToGroup(input, dst) == HashCall("Group.HashToGroup", input, dst, HashToGroup(input, dst))

InitHash == scalars = NewScalars /\ elements = NewElements /\ InitRest

NextHash ==
  \/ \E input \in HashInputs, dst \in EmptyDSTs : CallHashToScalar(input, dst)
  \/ \E input \in HashInputs, dst \in EmptyDSTs : CallHashToGroup(input, dst)
  \/ ops = 0 /\ \E pair \in HashedPairs : CallHashToScalar(pair[1], pair[2])
  \/ ops = 0 /\ \E pair \in HashedPairs : CallHashToGroup(pair[1], pair[2])

SpecHash == InitHash /\ [][NextHash]_vars

\* ------------------------------------------------------------------------
\* The order of the group, as bytes
\* ------------------------------------------------------------------------

\* calls of one behaviour on the order and the slices it returns
MaxOrderOps == 3

\* Order that returns a slice of the array of orderBytes itself
GroupOrderShares(m) == [arrays |-> m.arrays, held |-> Append(m.held, 1)]

\* Group.Order: slices.Clone(orderBytes), a slice of a new array that holds the
\* bytes the array of orderBytes holds now
GroupOrder(m) ==
  [arrays |-> Append(m.arrays, m.arrays[1]), held |-> Append(m.held, Len(m.arrays) + 1)]

\* the bytes of the slice the caller got last
LastHeld(m) == m.arrays[m.held[Len(m.held)]]

CallOrder ==
  /\ Idle /\ ops < MaxOrderOps
  /\ mem' = GroupOrder(mem)
  /\ last' = [op |-> "Group.Order", arg |-> 0, pre |-> scalars,
              out |-> ReturnsBytes(<<>>, LastHeld(GroupOrder(mem))), retried |-> FALSE]
  /\ wire' = [in |-> <<>>, out |-> LastHeld(GroupOrder(mem))]
  /\ ops' = ops + 1
  /\ UNCHANGED <<scalars, elements, pow, rnd, refs, erefs>>

\* the caller writes to the array of the slice h it holds
SliceStep(op, h, bytes) ==
  /\ Idle /\ ops < MaxOrderOps
  /\ mem' = [mem EXCEPT !.arrays[mem.held[h]] = bytes]
  /\ last' = [op |-> op, arg |-> h, pre |-> scalars, out |-> Returns(<<>>), retried |-> FALSE]
  /\ ops' = ops + 1
  /\ UNCHANGED <<scalars, elements, pow, rnd, wire, refs, erefs>>

\* slice[i] = b
WriteSlice(h, i, b) == SliceStep("write", h, [mem.arrays[mem.held[h]] EXCEPT ![i] = b])

\* slices.Reverse(slice)
ReverseSlice(h) == SliceStep("slices.Reverse", h, Reverse(mem.arrays[mem.held[h]]))

\* a call of MinusOne on scalar 1, among the calls on the order
CallMinusOneAfter ==
  /\ Idle /\ ops < MaxOrderOps
  /\ \E out \in {ScalarMinusOne(scalars[1])} : Complete("MinusOne", 0, out, FALSE)
  /\ UNCHANGED <<pow, rnd>>

InitOrder == scalars \in CodecScalars /\ elements = NewElements /\ InitRest

NextOrder ==
  \/ CallOrder
  \/ \E h \in DOMAIN mem.held, i \in {1, canonicalEncodingLength}, b \in {0, 255} : WriteSlice(h, i, b)
  \/ \E h \in DOMAIN mem.held : ReverseSlice(h)
  \/ CallMinusOneAfter

SpecOrder == InitOrder /\ [][NextOrder]_vars

\* ------------------------------------------------------------------------
\* MinusOne plus One
\* ------------------------------------------------------------------------

\* two scalars of one group, each new (zero) or set to one
RingScalars ==
  {<<[grp |-> g, val |-> v], [grp |-> g, val |-> w]>> :
     <<g, v, w>> \in Groups \X {scZero, scOne} \X {scZero, scOne}}

InitRing == scalars \in RingScalars /\ elements = NewElements /\ InitRest

\* MinusOne is called on the first variable only, One on the second
MinusOneOn(h) == HandleCall("MinusOne", h, 0, ScalarMinusOne(View(h)))

OneOn(h) == HandleCall("One", h, 0, ScalarOne(View(h)))

NextRing ==
  \/ MinusOneOn(1)
  \/ OneOn(2)
  \/ \E h \in Handles, k \in {0} \cup Handles : AddOn(h, k)
  \/ \E h \in Handles : ZeroOn(h)

SpecRing == InitRing /\ [][NextRing]_vars

\* ------------------------------------------------------------------------
\* Random under a fair entropy source
\* ------------------------------------------------------------------------

\* a draw whose bytes reduce to a scalar that is not zero
NonZeroDraw ==
  \E random \in EntropyValues :
    /\ FromUniformBytes(random, scalars[1].grp) # scZero
    /\ RandomDraw(random)

\* Pow as the first call of a behaviour
CallPowFirst(a) == ops = 0 /\ CallPow(a)

\* the two loops of the scalar layer that run step by step: the rejection loop
\* of Random and the ladder of Pow
NextRandom ==
  \/ CallRandom
  \/ \E random \in EntropyValues : RandomDraw(random)
  \/ \E a \in ArgIds : CallPowFirst(a)
  \/ PowFirstRound
  \/ PowRounds
  \/ PowReturn

\* the entropy source does not return bytes that reduce to zero for ever
SpecRandom == InitCodec /\ [][NextRandom]_vars /\ WF_vars(NonZeroDraw)

\* ------------------------------------------------------------------------
\* The ladder of Pow on exponents of a few bytes
\* ------------------------------------------------------------------------

\* receivers 0, 1, 2, 3, 165 and exponents 0, 1, 2, 3, 165, 256, 65537, 2^32 + 129
LadderScalars ==
  {<<[grp |-> g, val |-> b], [grp |-> g, val |-> e]>> :
     <<g, b, e>> \in LittleEndianGroups
                      \X {scZero, scOne, Num(<<2>>), Num(<<3>>), Num(<<165>>)}
                      \X {scZero, scOne, Num(<<2>>), Num(<<3>>), Num(<<165>>), Num(<<0, 1>>),
                          Num(<<1, 0, 1>>), Num(<<129, 0, 0, 0, 1>>)}}

InitLadder == scalars \in LadderScalars /\ elements = NewElements /\ InitRest

\* one call of Pow in a behaviour
CallLadder(a) == ops = 0 /\ CallPow(a)

NextLadder ==
  \/ \E a \in ArgIds : CallLadder(a)
  \/ PowFirstRound
  \/ PowRounds
  \/ PowReturn

SpecLadder == InitLadder /\ [][NextLadder]_vars

\* ------------------------------------------------------------------------
\* Operands of another group
\* ------------------------------------------------------------------------

\* a receiver 1 or 256 and an operand 0 or 3 of another group, or 2 and 3 of
\* one group
FaultScalars ==
  {<<[grp |-> g1, val |-> v], [grp |-> g2, val |-> w]>> :
     <<g1, g2, v, w>> \in {q \in Groups \X Groups \X {scOne, Num(<<0, 1>>)} \X {scZero, Num(<<3>>)} :
                            q[1] # q[2]}}
  \cup {<<[grp |-> g, val |-> Num(<<2>>)], [grp |-> g, val |-> Num(<<3>>)]>> : g \in Groups}

InitFault == scalars \in FaultScalars /\ elements = NewElements /\ InitRest

NextFault ==
  \/ \E a \in ArgIds : CallAdd(a)
  \/ \E a \in ArgIds : CallSubtract(a)
  \/ \E a \in ArgIds : CallMultiply(a)
  \/ \E a \in ArgIds : CallEqual(a)
  \/ \E a \in ArgIds : CallLessOrEqual(a)
  \/ \E a \in ArgIds : CallSet(a)
  \/ \E a \in ArgIds : CallPow(a)
  \/ PowFirstRound
  \/ PowRounds
  \/ PowReturn
  \/ CallInvert

SpecFault == InitFault /\ [][NextFault]_vars

\* ------------------------------------------------------------------------
\* Wrappers of elements
\* ------------------------------------------------------------------------

\* the two variables of a program that hold public elements, each a wrapper
\* bound to a backend element
Wrappers == DOMAIN erefs

OtherWrapper(h) == CHOOSE j \in Wrappers : j # h

\* the backend element the wrapper h holds
ElementView(h) == elements[erefs[h]]

\* the operand a call names: nil or the backend element of a wrapper
ElementHeld(k) == IF k = 0 THEN NilElement ELSE ElementView(k)

\* two edwards25519 elements, each the identity, B or 2.B, and the
\* edwards25519 scalars 2 and 3
ShareElements ==
  {<<[grp |-> "edwards25519", val |-> v1, tor |-> 0], [grp |-> "edwards25519", val |-> v2, tor |-> 0]>> :
     <<v1, v2>> \in ElementValues \X ElementValues}

ShareScalars ==
  <<[grp |-> "edwards25519", val |-> Num(<<2>>)], [grp |-> "edwards25519", val |-> Num(<<3>>)]>>

InitShare == scalars = ShareScalars /\ elements \in ShareElements /\ InitRest

\* the call that last bound a wrapper to what it returned
BoundBy == IF "bound" \in DOMAIN last THEN last.bound ELSE "none"

\* Base and Identity that wrap a copy of the receiver's backend element
WrapsCopy(h) == CHOOSE c \in DOMAIN elements : c # erefs[h]

\* the backend element in the wrapper Base and Identity return: the one the
\* backend call returns, which is the receiver's
Wraps(h) == erefs[h]

\* the backend element Copy on the wrapper h allocates: one h does not hold
ElementCopyAllocates(h) == CHOOSE c \in DOMAIN elements : c # erefs[h]

\* r := e.op() for op Base or Identity, e the wrapper h and r the other one:
\* the backend element of e is set, and r is bound to the wrapper returned
Rebind(op, h, result) ==
  /\ ops < MaxOps
  /\ \E out \in {result}, w \in {Wraps(h)} :
       /\ elements' = [elements EXCEPT ![erefs[h]].val = out.val, ![erefs[h]].tor = out.tor,
                                       ![w].val = out.val, ![w].tor = out.tor]
       /\ erefs' = [erefs EXCEPT ![OtherWrapper(h)] = w]
       /\ last' = [op |-> op, arg |-> 0, pre |-> elements, out |-> out, retried |-> FALSE,
                   on |-> h, bound |-> op, binds |-> TRUE]
  /\ ops' = ops + 1
  /\ UNCHANGED <<scalars, pow, rnd, wire, refs, mem>>

BindBase(h) == Rebind("Element.Base", h, Base(ElementView(h)))

BindIdentity(h) == Rebind("Element.Identity", h, Identity(ElementView(h)))

\* r := e.Copy()
BindCopy(h) ==
  /\ ops < MaxOps
  /\ \E c \in {ElementCopyAllocates(h)} :
       /\ elements' = [elements EXCEPT ![c] = ElementView(h)]
       /\ erefs' = [erefs EXCEPT ![OtherWrapper(h)] = c]
  /\ last' = [op |-> "Element.Copy", arg |-> 0, pre |-> elements,
              out |-> ReturnsElement(ElementView(h).val, ElementView(h).tor), retried |-> FALSE,
              on |-> h, bound |-> "Element.Copy", binds |-> TRUE]
  /\ ops' = ops + 1
  /\ UNCHANGED <<scalars, pow, rnd, wire, refs, mem>>

\* a call through the wrapper h, with the operand k, whose result the program
\* does not keep
Through(op, h, k, result) ==
  /\ ops < MaxOps
  /\ \E out \in {result} :
       /\ elements' = [elements EXCEPT ![erefs[h]].val = out.val, ![erefs[h]].tor = out.tor]
       /\ last' = [op |-> op, arg |-> k, pre |-> elements, out |-> out, retried |-> FALSE,
                   on |-> h, bound |-> BoundBy, binds |-> FALSE]
  /\ ops' = ops + 1
  /\ UNCHANGED <<scalars, pow, rnd, wire, refs, mem, erefs>>

AddThrough(h, k) == Through("Element.Add", h, k, ElementAdd(ElementView(h), ElementHeld(k)))

SubtractThrough(h, k) ==
  Through("Element.Subtract", h, k, ElementSubtract(ElementView(h), ElementHeld(k)))

MultiplyThrough(h, a) == Through("Element.Multiply", h, a, ElementMultiply(ElementView(h), Arg(a)))

IdentityThrough(h) == Through("Element.Identity", h, 0, Identity(ElementView(h)))

DoubleThrough(h) == Through("Element.Double", h, 0, ElementDouble(ElementView(h)))

NegateThrough(h) == Through("Element.Negate", h, 0, ElementNegate(ElementView(h)))

SetThrough(h, k) == Through("Element.Set", h, k, ElementSet(ElementView(h), ElementHeld(k)))

NextShare ==
  \/ \E h \in Wrappers : BindBase(h)
  \/ \E h \in Wrappers : BindIdentity(h)
  \/ \E h \in Wrappers : BindCopy(h)
  \/ \E h \in Wrappers, k \in {0} \cup Wrappers : AddThrough(h, k)
  \/ \E h \in Wrappers, k \in {0} \cup Wrappers : SubtractThrough(h, k)
  \/ \E h \in Wrappers, a \in ArgIds : MultiplyThrough(h, a)
  \/ \E h \in Wrappers : IdentityThrough(h)
  \/ \E h \in Wrappers : DoubleThrough(h)
  \/ \E h \in Wrappers : NegateThrough(h)
  \/ \E h \in Wrappers, k \in {0} \cup Wrappers : SetThrough(h, k)

SpecShare == InitShare /\ [][NextShare]_vars

\* ------------------------------------------------------------------------
\* Properties
\* ------------------------------------------------------------------------

\* the receiver and the operand of the last call, as they were when it began
Receiver == last.pre[1]

Operand == IF last.arg = 0 THEN Nil ELSE last.pre[last.arg]

SameGroupOperand == last.arg # 0 /\ Operand.grp = Receiver.grp

ForeignOperand == last.arg # 0 /\ Operand.grp # Receiver.grp

\* the last call returned its receiver, holding v, and ended with no fault
ReturnedReceiver(v) ==
  /\ last.out.fault = NoFault
  /\ last.out.self
  /\ last.out.val = v
  /\ Idle => scalars[1].val = v

TwoTo64 == Num(<<0, 0, 0, 0, 0, 0, 0, 0, 1>>)

\* C1: for two scalars a and b of one group, a.LessOrEqual(b) returns true
\* exactly when the unsigned integer a is less than or equal to the unsigned
\* integer b.
C1_LessOrEqualIsIntegerOrder ==
  (last.op = "LessOrEqual" /\ SameGroupOperand) =>
    /\ last.out.fault = NoFault
    /\ (last.out.bool = "true") <=> Leq(Receiver.val, Operand.val)

\* C2: LessOrEqual is total: for two scalars a and b of one group, when
\* a.LessOrEqual(b) is false, b.LessOrEqual(a) is true.
C2_LessOrEqualIsTotal ==
  (last.op = "LessOrEqual" /\ SameGroupOperand /\ last.out.bool = "false") =>
    ScalarLessOrEqual(Operand, Receiver).bool = "true"

\* C3: for a scalar s and a non-nil exponent e of the same group, s.Pow(e)
\* returns s holding s^e modulo the group order, for every bit pattern of e.
C3_PowIsModularExponentiation ==
  (Idle /\ last.op = "Pow" /\ SameGroupOperand) =>
    ReturnedReceiver(ModExp(Receiver.val, Operand.val, Receiver.grp))

\* 3.Pow(65537) has returned on ristretto255: the most significant byte of the
\* exponent holds one set bit, and the byte below it is zero
C3_Witness ==
  /\ Idle /\ last.op = "Pow" /\ last.arg = 2
  /\ Receiver = [grp |-> "ristretto255", val |-> Num(<<3>>)]
  /\ Operand = [grp |-> "ristretto255", val |-> Num(<<1, 0, 1>>)]
  /\ last.out.self
  /\ scalars[1].val \notin {scZero, scOne, Num(<<3>>)}

\* C4: for every scalar s, s = 0 included, s.Pow(nil) and s.Pow(zero) set s to
\* One, in every backend.
C4_PowNilOrZeroIsOne ==
  (Idle /\ last.op = "Pow" /\ (last.arg = 0 \/ (SameGroupOperand /\ Operand.val = scZero))) =>
    ReturnedReceiver(scOne)

\* 0.Pow(zero) has returned on edwards25519
C4_Witness ==
  /\ Idle /\ last.op = "Pow" /\ last.arg = 2
  /\ Receiver = [grp |-> "edwards25519", val |-> scZero]
  /\ Operand = [grp |-> "edwards25519", val |-> scZero]
  /\ scalars[1].val = scOne

\* C5: every binary operator (Add, Subtract, Multiply, Pow, Set, Equal,
\* LessOrEqual) given a non-nil operand of another group, whatever its value,
\* fails with the CastScalar fault and returns nothing.
C5_ForeignOperandFaults ==
  (Idle /\ last.op \in {"Add", "Subtract", "Multiply", "Pow", "Set", "Equal", "LessOrEqual"}
        /\ ForeignOperand) =>
    /\ last.out.fault = ErrCastScalar
    /\ ~last.out.self

\* C6: on the public Element, Add(nil) and Subtract(nil) fail with the
\* nil-element fault and do not return.
C6_ElementNilOperandFaults ==
  (last.op \in {"Element.Add", "Element.Subtract"} /\ last.arg = 0) =>
    /\ last.out.fault = ErrParamNilPoint
    /\ ~last.out.self

\* C7: for every scalar s, s.Add(nil) and s.Subtract(nil) return s and leave
\* its value unchanged.
C7_AddSubtractNilIsNoOp ==
  (last.op \in {"Add", "Subtract"} /\ last.arg = 0) => ReturnedReceiver(Receiver.val)

\* (order-1).Subtract(nil) has returned
C7_Witness ==
  /\ Idle /\ last.op = "Subtract" /\ last.arg = 0
  /\ Receiver.val = MinusOneOf(Receiver.grp)
  /\ scalars[1].val = MinusOneOf(Receiver.grp)

\* C8: for every scalar s, s.Multiply(nil) sets s to zero and returns s.
C8_MultiplyNilIsZero ==
  (last.op = "Multiply" /\ last.arg = 0) => ReturnedReceiver(scZero)

\* (order-1).Multiply(nil) has returned
C8_Witness ==
  /\ Idle /\ last.op = "Multiply" /\ last.arg = 0
  /\ Receiver.val = MinusOneOf(Receiver.grp)
  /\ scalars[1].val = scZero

\* C9: whatever the entropy source returns, draws that reduce to zero
\* included, the scalar Random returns is not zero.
C9_RandomIsNotZero ==
  last.op = "Random" => (last.out.val # scZero /\ ReturnedReceiver(last.out.val))

\* Random has returned after a draw that reduced to zero
C9_Witness == Idle /\ last.op = "Random" /\ last.retried /\ scalars[1].val # scZero

\* all bytes of the value above its low 8 bytes are zero
FitsUInt64(v) == \A i \in 9..canonicalEncodingLength : v[i] = 0

\* C10: UInt64 returns the value and no error exactly when every byte of the
\* encoding above the low 8 bytes is zero; otherwise it returns 0 and the
\* error 'scalar is too big to be uint64', as for 2^64 and order-1.
C10_UInt64IffFits ==
  last.op = "UInt64" =>
    /\ last.out.fault = NoFault
    /\ (last.out.err = NoError) <=> FitsUInt64(Receiver.val)
    /\ last.out.err = NoError => last.out.u64 = SubSeq(Receiver.val, 1, 8)
    /\ last.out.err # NoError => (last.out.err = ErrUInt64TooBig /\ last.out.u64 = Pad(<<>>, 8))
    /\ Receiver.val \in {TwoTo64, MinusOneOf(Receiver.grp)} => last.out.err = ErrUInt64TooBig

\* UInt64 has failed on the secp256k1 scalar 2^64
C10_Witness ==
  /\ last.op = "UInt64"
  /\ Receiver = [grp |-> "secp256k1", val |-> TwoTo64]
  /\ last.out.err = ErrUInt64TooBig

\* ------------------------------------------------------------------------
\* Properties of encoding and decoding
\* ------------------------------------------------------------------------

DecodeOps == {"Decode", "UnmarshalBinary"}

WrapOf(op) == IF op = "Decode" THEN "scalar Decode: " ELSE "scalar UnmarshalBinary: "

\* the last call failed with the error e, wrapped by its method, and left the receiver as it was
FailedWith(e) ==
  /\ last.out.fault = NoFault
  /\ last.out.err = e
  /\ last.out.wrap = <<WrapOf(last.op)>>
  /\ scalars[1].val = Receiver.val

\* C11: for every 64-bit value i and every group, SetUInt64(i) returns the
\* receiver without fault, and a following UInt64() returns i and no error.
C11_SetUInt64ThenUInt64 ==
  last.op = "SetUInt64" =>
    /\ ReturnedReceiver(last.out.val)
    /\ ScalarUInt64(scalars[1]) = ReturnsUInt64(scalars[1].val, wire.in, NoError)

\* SetUInt64(0x0807060504030201) has returned on a secp256k1 scalar
C11_Witness ==
  /\ last.op = "SetUInt64" /\ Receiver.grp = "secp256k1"
  /\ wire.in = <<1, 2, 3, 4, 5, 6, 7, 8>>
  /\ scalars[1].val = Num(<<1, 2, 3, 4, 5, 6, 7, 8>>)

\* C12: Decode and UnmarshalBinary of an input whose byte count differs from
\* ScalarLength fail with the error 'invalid scalar length', for every such
\* byte count.
C12_WrongLengthFails ==
  (last.op \in DecodeOps /\ Len(wire.in) # ScalarLength(Receiver.grp)) =>
    FailedWith(ErrParamScalarLength)

\* C12 as amended: Decode and UnmarshalBinary of an input whose byte count is
\* neither zero nor ScalarLength fail with the error 'invalid scalar length';
\* on ristretto255 and edwards25519 the empty input fails with the error for
\* a nil or empty scalar.
C12_NonEmptyWrongLengthFails ==
  (last.op \in DecodeOps /\ Len(wire.in) # ScalarLength(Receiver.grp)) =>
    IF Len(wire.in) = 0
    THEN Receiver.grp \in LittleEndianGroups => FailedWith(ErrParamNilScalar)
    ELSE FailedWith(ErrParamScalarLength)

\* UnmarshalBinary of 33 bytes has failed on an edwards25519 scalar holding order-1
C12_Witness ==
  /\ last.op = "UnmarshalBinary" /\ Len(wire.in) = 33
  /\ Receiver = [grp |-> "edwards25519", val |-> scMinusOne]
  /\ last.out.err = ErrParamScalarLength

\* the input has ScalarLength bytes and its magnitude is not below the order
NotBelowOrder(g, b) ==
  Len(b) = ScalarLength(g) /\ GeqFrom(MagnitudeOf(g, b), Order(g), canonicalEncodingLength)

\* C13: Decode of an input of ScalarLength bytes whose magnitude is greater
\* than or equal to the group order fails with the error 'invalid scalar
\* encoding' and sets no scalar.
C13_NotBelowOrderFails ==
  (last.op \in DecodeOps /\ NotBelowOrder(Receiver.grp, wire.in)) =>
    FailedWith(ErrParamScalarInvalidEncoding)

\* Decode of the encoding of the order itself has failed on a ristretto255 scalar
C13_Witness ==
  /\ last.op = "Decode" /\ wire.in = orderBytes
  /\ Receiver = [grp |-> "ristretto255", val |-> TwoTo64]
  /\ last.out.err = ErrParamScalarInvalidEncoding

\* C14: for every group and scalar s, Encode(s) has ScalarLength bytes, and
\* Decode of these bytes into a new scalar succeeds and gives a scalar equal to s.
C14_EncodeDecodeRoundTrip ==
  last.op = "Encode" =>
    /\ last.out.fault = NoFault
    /\ Len(last.out.bytes) = ScalarLength(Receiver.grp)
    /\ \E r \in {ScalarDecode([grp |-> Receiver.grp, val |-> scZero], last.out.bytes, ErrLibraryNilScalar)} :
         /\ r.err = NoError /\ r.fault = NoFault
         /\ ScalarEqual([grp |-> Receiver.grp, val |-> r.val], Receiver).bool = "true"

\* the secp256k1 scalar 256 has been encoded, big-endian
C14_Witness ==
  /\ last.op = "Encode"
  /\ Receiver = [grp |-> "secp256k1", val |-> Num(<<0, 1>>)]
  /\ wire.out = Reverse(Num(<<0, 1>>))

\* ------------------------------------------------------------------------
\* Properties of elements
\* ------------------------------------------------------------------------

IdentityElement == [grp |-> "edwards25519", val |-> scZero, tor |-> 0]

BaseElement == [grp |-> "edwards25519", val |-> scOne, tor |-> 0]

\* C15: for every byte string Element.Decode accepts, the element decoded
\* encodes to exactly this byte string.
C15_DecodedElementEncodesToInput ==
  (last.op = "Element.Decode" /\ last.out.err = NoError) =>
    ElementEncode(elements[1]).bytes = wire.in

\* the error Element.Decode returns for the input data
DecodeErrorOf(data) == ElementDecode(Receiver, data).err

\* C16: on edwards25519, Decode of the encoding of the identity fails, with an
\* error for the identity that differs from the errors for the empty input,
\* an input of a wrong length and an input that is no point of the curve; so
\* decoding what Encode gives for the identity never succeeds.
C16_IdentityEncodingRejected ==
  /\ (last.op = "Element.Decode" /\ wire.in = edwardsEncode(IdentityElement)) =>
       /\ last.out.fault = NoFault
       /\ last.out.err = ErrIdentity
       /\ last.out.wrap = <<"element Decode: ", "invalid edwards25519 encoding: ">>
       /\ elements[1] = Receiver
       /\ ErrIdentity \notin {NoError, DecodeErrorOf(<<>>), DecodeErrorOf(Rep(1, 31)),
                              ErrLibraryPointEncoding}
  /\ (last.op = "Element.Decode" /\ wire.in = Pad(<<2>>, canonicalEncodingLength)) =>
       last.out.err = ErrLibraryPointEncoding
  /\ (last.op = "Element.Encode" /\ Receiver = IdentityElement) =>
       ElementDecode(NewElements[2], last.out.bytes).err = ErrIdentity

\* Decode of the encoding of the identity has failed on an element holding B
C16_Witness ==
  /\ last.op = "Element.Decode" /\ wire.in = scOne
  /\ Receiver = BaseElement
  /\ last.out.err = ErrIdentity
  /\ elements[1] = BaseElement

\* C17: for every element e, e.Multiply(nil) sets e to the identity and
\* returns e, and so does e.Multiply(zero) for the scalar zero of the group.
C17_MultiplyNilOrZeroIsIdentity ==
  (last.op = "Element.Multiply"
     /\ (last.arg = 0 \/ scalars[last.arg] = [grp |-> Receiver.grp, val |-> scZero])) =>
    /\ last.out.fault = NoFault
    /\ last.out.self
    /\ elements[1] = IdentityElement

\* Multiply(nil) has returned on an element holding the point T of order 8
C17_Witness ==
  /\ last.op = "Element.Multiply" /\ last.arg = 0
  /\ Receiver = [grp |-> "edwards25519", val |-> scZero, tor |-> 1]
  /\ elements[1] = IdentityElement

\* C18: with base := Base(), the chained call base.Add(base).Subtract(base)
\* gives the generator.
C18_AddThenSubtractSelf ==
  [][(/\ last.op = "Element.Add" /\ last.arg = 1 /\ last.out.fault = NoFault
      /\ last.pre[1] = BaseElement
      /\ ops' = ops + 1 /\ last'.op = "Element.Subtract" /\ last'.arg = 1)
     => elements'[1] = BaseElement]_vars

\* C18 as amended: with base := Base() and another element g holding the
\* generator, the chained call base.Add(g).Subtract(g) gives the generator;
\* with base itself as the operand, base.Add(base).Subtract(base) leaves base
\* holding the identity.
C18_AddThenSubtractOther ==
  [][/\ (/\ last.op = "Element.Add" /\ last.arg = 2 /\ last.out.fault = NoFault
         /\ last.pre[1] = BaseElement /\ last.pre[2] = BaseElement
         /\ ops' = ops + 1 /\ last'.op = "Element.Subtract" /\ last'.arg = 2)
        => (last'.out.fault = NoFault /\ last'.out.self /\ elements'[1] = BaseElement)
     /\ (/\ last.op = "Element.Add" /\ last.arg = 1 /\ last.out.fault = NoFault
         /\ last.pre[1] = BaseElement
         /\ ops' = ops + 1 /\ last'.op = "Element.Subtract" /\ last'.arg = 1)
        => (last'.out.fault = NoFault /\ last'.out.self /\ elements'[1] = IdentityElement)]_vars

\* Subtract(g) has returned on the element that held 2.B after Add(g), g holding B
C18_Witness ==
  /\ ops = 2 /\ last.op = "Element.Subtract" /\ last.arg = 2
  /\ last.pre[1] = [grp |-> "edwards25519", val |-> Num(<<2>>), tor |-> 0]
  /\ last.pre[2] = BaseElement
  /\ elements[1] = BaseElement

\* ------------------------------------------------------------------------
\* Properties of copies
\* ------------------------------------------------------------------------

\* C19: after c := s.Copy(), or o.Set(s) with s not nil, the two scalars are
\* equal, and every later call that changes one of them leaves the value of
\* the other as it was.
C19_CopyAndSetAreIndependent ==
  [][ops' = ops + 1 =>
       /\ (last'.op \in {"Copy", "Set"} /\ last'.arg # 0 /\ last'.out.fault = NoFault) =>
            scalars'[refs'[last'.on]] = scalars'[refs'[last'.arg]]
       /\ last'.op = "Copy" => scalars'[refs'[1]] = scalars'[refs'[2]]
       /\ last'.op # "Copy" =>
            /\ refs' = refs
            /\ scalars'[refs[Other(last'.on)]] = View(Other(last'.on))]_vars

\* after c := s.Copy() of a scalar that is not zero, s.Add(s) has changed s and
\* c holds the value both had
C19_Witness ==
  /\ last.op = "Add" /\ last.prev = "Copy" /\ last.on = 1 /\ last.arg = 1
  /\ last.pre[refs[1]] = last.pre[refs[2]]
  /\ View(2) = last.pre[refs[2]]
  /\ View(1) # View(2)

\* ------------------------------------------------------------------------
\* Properties of group identifiers
\* ------------------------------------------------------------------------

\* C20: the identifiers 0, 2 and every identifier above 7 are not available,
\* and String on each of them fails with InvalidGroup; the identifiers 1, 3,
\* 4, 5, 6 and 7 are available.
C20_AvailabilityOfIdentifiers ==
  /\ (last.op = "Group.Available" /\ (last.arg \in {0, 2} \/ last.arg > 7)) =>
       (last.out.fault = NoFault /\ last.out.bool = "false")
  /\ (last.op = "Group.String" /\ (last.arg \in {0, 2} \/ last.arg > 7)) =>
       last.out.fault = ErrInvalidGroup
  /\ (last.op = "Group.Available" /\ last.arg \in {1, 3, 4, 5, 6, 7}) =>
       (last.out.fault = NoFault /\ last.out.bool = "true")

\* String has failed on the identifier of Decaf448, as the second call
C20_Witness ==
  /\ ops = 2
  /\ last.op = "Group.String" /\ last.arg = 2
  /\ last.out.fault = ErrInvalidGroup

\* ------------------------------------------------------------------------
\* Properties of the group's operations
\* ------------------------------------------------------------------------

\* C21: HashToScalar and HashToGroup end in the fault for an empty tag when
\* dst is nil and when dst is a slice of length 0, for every input, and
\* return nothing then.
C21_EmptyDSTFaults ==
  (last.op \in {"Group.HashToScalar", "Group.HashToGroup"}
     /\ (wire.in[2].isNil \/ wire.in[2].bytes = <<>>)) =>
    /\ last.out.fault = errZeroLenDST
    /\ ~last.out.returned
    /\ wire.out = <<>>

\* HashToGroup has ended in the fault for a nil tag, after a call of
\* HashToScalar with a slice of length 0 as the tag
C21_Witness ==
  /\ ops = 2
  /\ last.prev = <<"Group.HashToScalar", <<NilSlice, Slice(<<>>)>>>>
  /\ last.op = "Group.HashToGroup" /\ wire.in[2] = NilSlice
  /\ wire.in[1] = Slice(<<105, 110, 112, 117, 116>>)
  /\ last.out.fault = errZeroLenDST

\* the two digits of a number below 100
TwoDigits(n) ==
  <<"0", "1", "2", "3", "4", "5", "6", "7", "8", "9">>[(n \div 10) + 1]
    \o <<"0", "1", "2", "3", "4", "5", "6", "7", "8", "9">>[(n % 10) + 1]

\* C22: for every supported group, tag app and version v below 100,
\* MakeDST(app, v) is app, "-V", the two digits of v, "-CS", the two digits of
\* the group's index (01 Ristretto255, 03 P-256, 04 P-384, 05 P-521,
\* 06 Edwards25519, 07 Secp256k1), "-" and the group's ciphersuite name.
C22_MakeDSTFormat ==
  (last.op = "Group.MakeDST" /\ last.arg \in {1, 3, 4, 5, 6, 7} /\ wire.in[2] < 100) =>
    /\ last.out.fault = NoFault
    /\ last.out.name =
         wire.in[1] \o "-V" \o TwoDigits(wire.in[2]) \o "-CS"
           \o <<"01", "", "03", "04", "05", "06", "07">>[last.arg] \o "-"
           \o <<"ristretto255_XMD:SHA-512_R255MAP_RO_", "", "P256_XMD:SHA-256_SSWU_RO_",
                "P384_XMD:SHA-384_SSWU_RO_", "P521_XMD:SHA-512_SSWU_RO_",
                "edwards25519_XMD:SHA-512_ELL2_RO_", "secp256k1_XMD:SHA-256_SSWU_RO_">>[last.arg]

\* MakeDST("app", 1) has returned for Ristretto255
C22_Witness ==
  /\ last.op = "Group.MakeDST" /\ last.arg = 1 /\ wire.in = <<"app", 1>>
  /\ last.out.name = "app-V01-CS01-ristretto255_XMD:SHA-512_R255MAP_RO_"

\* C23: every call of Order returns the bytes of the order in an array of its
\* own: a write to a slice that Order returned changes neither what a later
\* call of Order returns nor what a scalar operation does.
C23_OrderIsACopy ==
  /\ mem.arrays[1] = orderBytes
  /\ last.op = "Group.Order" =>
       /\ wire.out = orderBytes
       /\ \A k \in DOMAIN mem.held :
            mem.held[k] # 1 /\ (\A j \in DOMAIN mem.held : mem.held[j] = mem.held[k] => j = k)
  /\ last.op = "MinusOne" => scalars[1].val = MinusOneOf(scalars[1].grp)

\* Order has returned the order after the slice of an earlier call was reversed
C23_Witness ==
  /\ ops = 3 /\ last.op = "Group.Order"
  /\ Len(mem.held) = 2
  /\ mem.arrays[mem.held[1]] = Reverse(orderBytes)
  /\ mem.arrays[mem.held[2]] = orderBytes

\* ------------------------------------------------------------------------
\* Properties of scalars: MinusOne, Random, Pow, faults
\* ------------------------------------------------------------------------

\* C24: in every group MinusOne sets the scalar to order - 1, the scalar whose
\* value plus 1 is the order, and Add of a scalar holding one to the scalar
\* MinusOne returned gives zero.
C24_MinusOnePlusOneIsZero ==
  [][ops' = ops + 1 =>
       /\ last'.op = "MinusOne" =>
            [scalars'[1].val EXCEPT ![1] = @ + 1] = Order(scalars[1].grp)
       /\ (last.op = "MinusOne" /\ last'.op = "Add" /\ last'.on = 1 /\ last'.arg = 2
             /\ View(2).val = scOne) =>
            (last'.out.fault = NoFault /\ last'.out.self /\ scalars'[1].val = scZero)]_vars

\* Add of a ristretto255 scalar holding one has returned on the scalar that
\* MinusOne had just set, which holds zero now
C24_Witness ==
  /\ last.op = "Add" /\ last.prev = "MinusOne" /\ last.on = 1 /\ last.arg = 2
  /\ last.pre[1] = [grp |-> "ristretto255", val |-> scMinusOne]
  /\ scalars[2].val = scOne
  /\ scalars[1].val = scZero

\* the number of bits of the exponent the ladder has not processed yet
BitsLeft ==
  IF pow.pc = "first" THEN 8 * pow.msbyte + pow.j + 1
  ELSE IF pow.pc = "rest" /\ pow.i >= 0 THEN 8 * pow.i + pow.j + 1
  ELSE 0

\* the ladder is about to run the body of one of its loops
LadderRound == (pow.pc = "first" /\ pow.j >= 0) \/ (pow.pc = "rest" /\ pow.i >= 0)

\* the number of rounds the exponent e asks of the ladder: the index of its
\* highest set bit, none for zero
RoundsOf(e) == IF e = Pad(<<>>, Len(e)) THEN 0 ELSE TopBit(e)

\* the rejection loop of Random returns
RandomReturns == (rnd.pc = "loop") ~> (rnd.pc = "idle" /\ last.op = "Random")

\* a step of Pow: the ladder starts with as many rounds left as the exponent
\* asks, every round takes one of them, and no other step of Pow changes their
\* number or the exponent read at entry
LadderRoundsFixed ==
  /\ (pow.pc = "idle" /\ pow'.pc = "first") =>
       (pow'.bytes = Arg(pow'.arg).val /\ BitsLeft' = RoundsOf(pow'.bytes))
  /\ LadderRound => (BitsLeft' = BitsLeft - 1 /\ pow'.bytes = pow.bytes)
  /\ (pow.pc # "idle" /\ ~LadderRound) => BitsLeft' = BitsLeft
  /\ pow.pc # "idle" => rnd' = rnd

\* a pass of the loop of Random ends the call exactly when the bytes drawn
\* reduce to a scalar that is not zero: the entropy alone decides the number of
\* passes
PassesByEntropy ==
  rnd.pc = "loop" =>
    /\ pow' = pow
    /\ rnd'.pc = "idle" <=> scalars'[1].val # scZero
    /\ rnd'.pc = "loop" => rnd'.retried

\* C25: if the entropy source eventually returns bytes that reduce to a scalar
\* that is not zero, every call of Random returns; and the loop of Random is
\* the only loop of the scalar layer whose number of passes depends on the
\* entropy: the number of rounds of the ladder of Pow is fixed by the exponent
\* when the ladder starts, and no step of the ladder reads the entropy source.
C25_RandomTerminates == RandomReturns /\ [][LadderRoundsFixed /\ PassesByEntropy]_vars

\* Random has returned a scalar that is not zero after it rejected a draw
C25_Witness ==
  /\ rnd = NoRandom /\ last.op = "Random" /\ last.retried
  /\ last.out.val # scZero /\ last.out.val = scalars[1].val

\* the integer e \div 2^n, for e in little-endian bytes
ShiftRight(e, n) ==
  [k \in 1..Len(e) |->
     LET lo == k + (n \div 8)
         at(x) == IF x <= Len(e) THEN e[x] ELSE 0
     IN ((at(lo) \div (2 ^ (n % 8))) + at(lo + 1) * (2 ^ (8 - (n % 8)))) % 256]

\* C26: in the ladder of Pow of ristretto255 and edwards25519, for an exponent
\* that is not zero, after each bit processed s1 is b to the power p and s2 is
\* s1 times b, where b is the receiver at entry and p the integer of the bits
\* of the exponent from its highest set bit down to the bit processed last.
C26_LadderInvariant ==
  (pow.pc # "idle" /\ pow.bytes # scZero) =>
    /\ pow.s1 = ModExp(scalars[1].val, ShiftRight(pow.bytes, BitsLeft), scalars[1].grp)
    /\ pow.s2 = MulMod(pow.s1, scalars[1].val, scalars[1].grp)

\* the ladder of 3.Pow(65537) on ristretto255 has processed the highest set bit
\* and four zero bits: s1 is 3^16
C26_Witness ==
  /\ pow.pc = "rest" /\ pow.i = 1 /\ pow.j = 3
  /\ scalars[1] = [grp |-> "ristretto255", val |-> Num(<<3>>)]
  /\ pow.bytes = Num(<<1, 0, 1>>)
  /\ pow.s1 = Num(<<65, 215, 144, 2>>)

\* C27: Pow of ristretto255 and edwards25519 reads the exponent as it is at
\* entry and writes the receiver once, at its end: s.Pow(s) sets s to v^v for
\* the value v of s at entry, and x.Pow(e) leaves a distinct scalar e as it was.
C27_PowWithAliasedExponent ==
  /\ [][(pow'.pc # "idle" => scalars' = scalars) /\ scalars'[2] = scalars[2]]_vars
  /\ []((Idle /\ last.op = "Pow" /\ last.arg = 1) =>
          /\ last.out.fault = NoFault /\ last.out.self
          /\ scalars[1].val = ModExp(last.pre[1].val, last.pre[1].val, last.pre[1].grp))
  /\ []((Idle /\ last.op = "Pow" /\ last.arg = 2) => scalars[2] = last.pre[2])

\* s.Pow(s) has returned on the edwards25519 scalar 3, which holds 27 now
C27_Witness ==
  /\ Idle /\ last.op = "Pow" /\ last.arg = 1
  /\ last.pre[1] = [grp |-> "edwards25519", val |-> Num(<<3>>)]
  /\ scalars[1].val = Num(<<27>>)

\* C28: when Add, Subtract, Multiply, Set, Equal, LessOrEqual or Pow ends in
\* the CastScalar fault because its operand is of another group, the receiver
\* holds the value it held before the call.
C28_CastFaultKeepsReceiver ==
  (Idle /\ last.op \in {"Add", "Subtract", "Multiply", "Set", "Equal", "LessOrEqual", "Pow"}
        /\ ForeignOperand /\ last.out.fault = ErrCastScalar) =>
    (scalars[1] = last.pre[1] /\ scalars[2] = last.pre[2])

\* Multiply of the ristretto255 scalar 256 by a secp256k1 scalar has ended in
\* the fault, and the receiver holds 256
C28_Witness ==
  /\ Idle /\ last.op = "Multiply" /\ last.arg = 2
  /\ last.pre[1] = [grp |-> "ristretto255", val |-> Num(<<0, 1>>)]
  /\ last.pre[2].grp = "secp256k1"
  /\ last.out.fault = ErrCastScalar
  /\ scalars[1].val = Num(<<0, 1>>)

\* the errors Element.Decode returns: for the empty input, from the backend
\* for a wrong length or no point of the curve, and for the identity
DecodeErrors ==
  {ErrParamInvalidPointEncoding, ErrLibraryPointLength, ErrLibraryPointEncoding, ErrIdentity}

\* C29: when Decode on an edwards25519 element returns an error, for the empty
\* input, an input the backend rejects or an encoding of the identity, the
\* receiver holds the value it held before the call; when it returns no error
\* the receiver holds the decoded point.
C29_DecodeErrorKeepsReceiver ==
  last.op = "Element.Decode" =>
    /\ last.out.fault = NoFault
    /\ last.out.err \in DecodeErrors \cup {NoError}
    /\ last.out.err # NoError => elements[1] = last.pre[1]
    /\ wire.in = <<>> => last.out.err = ErrParamInvalidPointEncoding
    /\ \E set \in {SetBytes(wire.in)} :
         /\ last.out.err = NoError =>
              /\ set.err = NoError
              /\ elements[1].val = set.k
              /\ elements[1].tor = set.t
         /\ (wire.in # <<>> /\ set.err # NoError) => last.out.err = set.err
         /\ (set.err = NoError /\ set.k = scZero /\ set.t = 0) => last.out.err = ErrIdentity

\* Decode of an encoding of the identity with the sign bit set has failed on
\* an element that held the point of order 2, and the element still holds it
C29_Witness ==
  /\ last.op = "Element.Decode" /\ wire.in = WithSign(scOne)
  /\ last.pre[1].val = scZero /\ last.pre[1].tor = 4
  /\ last.out.err = ErrIdentity
  /\ elements[1] = last.pre[1]

\* ------------------------------------------------------------------------
\* Properties of wrappers of elements
\* ------------------------------------------------------------------------

\* C30: r := e.Base() and r := e.Identity() set e to the generator or the
\* identity and bind r to a wrapper of the backend element of e, so that after
\* every later call through r or through e both show the same value; after
\* c := e.Copy() both show the value of e, and every later call through one of
\* them leaves the value of the other as it was.
C30_BaseAndIdentityShareCopyDoesNot ==
  /\ [](BoundBy \in {"Element.Base", "Element.Identity"} =>
          /\ erefs[1] = erefs[2]
          /\ ElementView(1) = ElementView(2)
          /\ last.binds =>
               ElementView(last.on) = (IF last.op = "Element.Base" THEN BaseElement
                                       ELSE IdentityElement))
  /\ [][ops' = ops + 1 =>
         /\ (last'.binds /\ last'.op = "Element.Copy") =>
              /\ erefs'[1] # erefs'[2]
              /\ elements'[erefs'[1]] = elements'[erefs'[2]]
              /\ elements'[erefs'[last'.on]] = ElementView(last'.on)
         /\ ~last'.binds => erefs' = erefs
         /\ (~last'.binds /\ BoundBy = "Element.Copy") =>
              elements'[erefs'[OtherWrapper(last'.on)]] = ElementView(OtherWrapper(last'.on))]_vars

\* after r := e.Base(), r.Add(r) has been called on the generator they share,
\* and e shows 2.B, as r does
C30_Witness ==
  /\ last.op = "Element.Add" /\ BoundBy = "Element.Base" /\ last.on = 2 /\ last.arg = 2
  /\ last.pre[1] = BaseElement
  /\ ElementView(1) = [grp |-> "edwards25519", val |-> Num(<<2>>), tor |-> 0]
  /\ ElementView(2) = ElementView(1)
====
